---- MODULE Spec2Model ----
(***************************************************************************)
(* A model of veryl-lang/discovery: the persistent store (src/db.rs: the   *)
(* project registry, the build logs, the download histories), the build    *)
(* orchestrator Db::build and the migration prober (src/utils.rs), and the *)
(* command-line program of src/main.rs with the file it loads and saves.   *)
(*                                                                         *)
(* Six specifications share the module:                                    *)
(*   Spec         Db::push_release on both release tracks                  *)
(*   SpecBuild    Db::insert_project and Db::build over the registry       *)
(*   SpecRoots    the first run of Db::build, with several build roots     *)
(*   SpecMigrate  veryl_build / migrate against one build root             *)
(*   SpecUpdate   Db::update with its calls of Db::search                  *)
(*   SpecMain     the processes of src/main.rs and the file db/db.json     *)
(***************************************************************************)
EXTENDS Integers, Sequences, FiniteSets, TLC

VARIABLES
    \* ---- Db (src/db.rs:31-38) ----
    veryl_downloads,    \* Db.veryl_downloads   : Version -> Seq(Download)
    verylup_downloads,  \* Db.verylup_downloads : Version -> Seq(Download)
    \* ---- Db::push_release in progress ----
    rel_pc,             \* "idle" | "push" | "panic"
    releases,           \* the releases of the call not yet processed
    kind,               \* the ReleaseKind of the call
    last_merge,         \* what the last loop iteration did to the history
    \* ---- one call of veryl_build (src/utils.rs) ----
    vb_pc,              \* "ready" | "done"
    vb_info,            \* the VerylBuildInfo of the call
    vb_migrated,        \* *migrated, before the call and after it
    vb_ret,             \* what the call returned, and the commands it ran
    \* ---- Db.projects and its environment ----
    db_projects,        \* Db.projects : u64 -> Project
    upstream,           \* what a clone of each URL finds: a head revision or nothing
    ins_ret,            \* the last insert_project call: its URL and the id returned
    \* ---- one run of Db::build ----
    b_pc,               \* "idle" | "loop" | "roots" | "ref" | "cmp" | "next"
    b_result,           \* "none" | "running" | "ok" | "err": how the last run ended
    opt,                \* Option<OptCheck>
    version,            \* the version the compiler reports
    projects,           \* the sorted clone of Db.projects
    idx,                \* the position in projects of the loop
    build_logs,         \* the (id, BuildLog) pairs to commit
    rev,                \* the head revision of the current project
    veryl_roots,        \* the build roots of the current project
    root_i,             \* the position in veryl_roots of the inner loop
    migrated,
    prj_result,
    fail_paths,
    check_result,
    \* ---- what a run did ----
    runs,               \* runs started
    outcome,            \* how the loop body ended for the current project
    root_results,       \* the `result` of each build root of the current project
    invoked,            \* the compiler commands run for the current project
    root_builds,        \* the calls of veryl_build made for the current project
    printed,            \* the status line of the current project
    prev_run,           \* the last completed run, if nothing happened since
    repeat,             \* this run repeats prev_run: update mode, same version
    \* ---- Db.discovered, and one call of Db::update with its Db::search ----
    discovered,         \* Db.discovered : Seq(Discovered)
    u_pc,               \* "idle" | "search" | "found" | "request" | "push" | "pushed" | "dead"
    u_ret,              \* "none" | "running" | "ok" | "retry over" | "err" | "panic"
    updates,            \* calls of update started
    s_query,            \* the query of the search under way
    s_retry,            \* its retry argument
    s_answers,          \* what each attempt got: a page, or nothing
    s_duration,         \* the local duration
    s_slept,            \* the sleeps of this search, in seconds
    page,               \* the page the last search returned
    sources,            \* the local sources of update
    u_track,            \* the release track whose listing is requested
    u_sent,             \* requests sent for each listing in this call
    veryl_releases,     \* the locals veryl_releases and verylup_releases
    verylup_releases,
    \* ---- the process of src/main.rs and the file db/db.json ----
    disk,               \* db/db.json: absent, stored with a document, or torn
    loaded,             \* db/db.json as it was when the process started
    m_pc,               \* where the process is, or where it ended
    m_ret,              \* "none" | "running" | "ok" | "err" | "panic"
    m_opt,              \* None for `update`, Some(OptCheck) for `check`
    m_db,               \* the Db of the process
    m_rels,             \* push_release: the releases not yet processed
    m_version,          \* build: the version string of the compiler
    m_todo,             \* build: the projects the loop has not yet visited
    m_logs,             \* build: the local build_logs
    m_runs              \* processes started so far

rel_vars == <<veryl_downloads, verylup_downloads, rel_pc, releases, kind, last_merge>>

vb_vars == <<vb_pc, vb_info, vb_migrated, vb_ret>>

db_vars == <<db_projects, upstream, ins_ret>>

\* the locals of one iteration of the loop over projects, and what it did
iter_vars == <<rev, veryl_roots, root_i, migrated, prj_result, fail_paths,
               check_result, outcome, root_results, invoked,
               root_builds, printed>>

\* the locals of the run
loop_vars == <<opt, version, projects, idx, build_logs>>

run_vars == <<b_pc, b_result, loop_vars, iter_vars, runs, prev_run, repeat>>

search_vars == <<s_query, s_retry, s_answers, s_duration, s_slept>>

upd_vars == <<discovered, u_pc, u_ret, updates, search_vars, page, sources, u_track,
              u_sent, veryl_releases, verylup_releases>>

build_vars == <<db_vars, run_vars>>

main_vars == <<disk, loaded, m_pc, m_ret, m_opt, m_db, m_rels, m_version, m_todo,
               m_logs, m_runs>>

\* Option<T>: None is the empty sequence, Some(x) the sequence of x alone
None == <<>>

Some(x) == <<x>>

Unwrap(o) == o[1]

Last(s) == s[Len(s)]

(***************************************************************************)
(* Strings the code takes apart are sequences of characters.               *)
(***************************************************************************)
Digits == <<"0", "1", "2", "3", "4", "5", "6", "7", "8", "9">>

IsDigit(c) == \E i \in 1..Len(Digits) : Digits[i] = c

DigitVal(c) == (CHOOSE i \in 1..Len(Digits) : Digits[i] = c) - 1

\* str::strip_prefix("v"): the rest of the string, or None
StripPrefixV(s) ==
    IF Len(s) >= 1 /\ s[1] = "v" THEN Some(Tail(s)) ELSE None

\* the position of the first "." of s at or after i, Len(s)+1 when there is none
RECURSIVE NextDot(_, _)
NextDot(s, i) ==
    IF i > Len(s) THEN Len(s) + 1
    ELSE IF s[i] = "." THEN i
    ELSE NextDot(s, i + 1)

\* a semver numeric identifier: digits only, non-empty, no leading zero
IsNumericId(s) ==
    /\ Len(s) >= 1
    /\ \A i \in 1..Len(s) : IsDigit(s[i])
    /\ (Len(s) > 1 => s[1] # "0")

RECURSIVE NumVal(_)
NumVal(s) ==
    IF s = <<>> THEN 0
    ELSE 10 * NumVal(SubSeq(s, 1, Len(s) - 1)) + DigitVal(Last(s))

\* semver::Version::parse on MAJOR.MINOR.PATCH: the version, or None
VersionParse(s) ==
    LET d1 == NextDot(s, 1)
        d2 == NextDot(s, d1 + 1)
        d3 == NextDot(s, d2 + 1)
        a  == SubSeq(s, 1, d1 - 1)
        b  == SubSeq(s, d1 + 1, d2 - 1)
        c  == SubSeq(s, d2 + 1, Len(s))
    IN  IF /\ d1 <= Len(s)
           /\ d2 <= Len(s)
           /\ d3 > Len(s)
           /\ IsNumericId(a) /\ IsNumericId(b) /\ IsNumericId(c)
        THEN Some([major |-> NumVal(a), minor |-> NumVal(b), patch |-> NumVal(c)])
        ELSE None

(***************************************************************************)
(* Asset names are sequences of tokens; the platform table of push_release *)
(* matches on the suffix.                                                  *)
(***************************************************************************)
EndsWith(name, suffix) ==
    /\ Len(name) >= Len(suffix)
    /\ SubSeq(name, Len(name) - Len(suffix) + 1, Len(name)) = suffix

PlatformOf(name) ==
    IF EndsWith(name, <<"x86_64", "-", "linux", ".zip">>) THEN "X86_64Linux"
    ELSE IF EndsWith(name, <<"x86_64", "-", "mac", ".zip">>) THEN "X86_64Mac"
    ELSE IF EndsWith(name, <<"x86_64", "-", "windows", ".zip">>) THEN "X86_64Windows"
    ELSE IF EndsWith(name, <<"aarch64", "-", "linux", ".zip">>) THEN "Aarch64Linux"
    ELSE IF EndsWith(name, <<"aarch64", "-", "mac", ".zip">>) THEN "Aarch64Mac"
    ELSE IF EndsWith(name, <<"aarch64", "-", "windows", ".zip">>) THEN "Aarch64Windows"
    ELSE "unreachable"

\* counts.insert(platform, asset.download_count) over the assets, in order
RECURSIVE CountsOf(_)
CountsOf(assets) ==
    IF assets = <<>> THEN <<>>
    ELSE LET a == Last(assets)
             rest == CountsOf(SubSeq(assets, 1, Len(assets) - 1))
         IN  (PlatformOf(a.name) :> a.download_count) @@ rest

AllAssetsKnown(assets) ==
    \A i \in 1..Len(assets) : PlatformOf(assets[i].name) # "unreachable"

\* the version a release is filed under, None where an unwrap() panics
ReleaseVersion(release) ==
    LET stripped == StripPrefixV(release.name)
    IN  IF stripped = None THEN None ELSE VersionParse(Unwrap(stripped))

ReleaseOk(release) ==
    ReleaseVersion(release) # None /\ AllAssetsKnown(release.assets)

\* the history stored for a version, <<>> when the map has no entry
HistoryOf(downloads, ver) ==
    IF ver \in DOMAIN downloads THEN downloads[ver] ELSE <<>>

\* a merge that compares with the first sample of the history, not the last
MergeSameCountsFirst(history, download) ==
    Head(history).counts = download.counts

MergeSameCounts(history, download) ==
    Last(history).counts = download.counts

\* a merge that pushes every sample
MergeDownloadAlways(downloads, ver, download) ==
    IF ver \in DOMAIN downloads
    THEN [downloads EXCEPT ![ver] = Append(@, download)]
    ELSE (ver :> <<download>>) @@ downloads

\* entry(version).and_modify(push unless the counts equal the last's).or_insert
MergeDownload(downloads, ver, download) ==
    IF ver \in DOMAIN downloads
    THEN IF ~MergeSameCounts(downloads[ver], download)
         THEN [downloads EXCEPT ![ver] = Append(@, download)]
         ELSE downloads
    ELSE (ver :> <<download>>) @@ downloads

(***************************************************************************)
(* The inputs of push_release.                                             *)
(***************************************************************************)
MaxReleases == 2    \* releases in one listing
MaxSamples  == 3    \* samples the store holds in all

NameV010   == <<"v", "0", ".", "1", ".", "0">>
NameV020   == <<"v", "0", ".", "2", ".", "0">>
NameNoV    == <<"0", ".", "1", ".", "0">>      \* no leading v
NameNoSem  == <<"v", "0", ".", "1">>           \* not a semantic version

AssetLinux == <<"veryl", "-", "x86_64", "-", "linux", ".zip">>
AssetMac   == <<"verylup", "-", "aarch64", "-", "mac", ".zip">>
AssetOther == <<"veryl", "-", "riscv64", "-", "linux", ".zip">>

Asset(n, c) == [name |-> n, download_count |-> c]

\* asset listings the platform table knows: the third lists a platform twice
\* and counts as the first does
KnownAssetLists ==
    { <<Asset(AssetLinux, 1)>>,
      <<Asset(AssetLinux, 1), Asset(AssetMac, 1)>>,
      <<Asset(AssetLinux, 2), Asset(AssetLinux, 1)>> }

GithubRelease ==
    [name : {NameV010, NameV020}, assets : KnownAssetLists]
        \cup { [name |-> NameNoV, assets |-> <<Asset(AssetLinux, 1)>>],
               [name |-> NameNoSem, assets |-> <<Asset(AssetLinux, 1)>>],
               [name |-> NameV010, assets |-> <<Asset(AssetLinux, 1), Asset(AssetOther, 1)>>] }

RECURSIVE SeqsUpTo(_, _)
SeqsUpTo(S, n) ==
    IF n = 0 THEN { <<>> }
    ELSE LET shorter == SeqsUpTo(S, n - 1)
         IN  shorter \cup { Append(s, x) : s \in shorter, x \in S }

RECURSIVE SumLen(_, _)
SumLen(f, keys) ==
    IF keys = {} THEN 0
    ELSE LET k == CHOOSE x \in keys : TRUE
         IN  Len(f[k]) + SumLen(f, keys \ {k})

TotalSamples ==
    SumLen(veryl_downloads, DOMAIN veryl_downloads)
        + SumLen(verylup_downloads, DOMAIN verylup_downloads)

(***************************************************************************)
(* Db::push_release, one action per iteration of its loop over releases.   *)
(***************************************************************************)
RelInit ==
    /\ veryl_downloads = <<>>
    /\ verylup_downloads = <<>>
    /\ rel_pc = "idle"
    /\ releases = <<>>
    /\ kind = "Veryl"
    /\ last_merge = "none"

PushReleaseBegin(rels, k) ==
    /\ rel_pc = "idle"
    /\ TotalSamples + Len(rels) <= MaxSamples
    /\ rel_pc' = "push"
    /\ releases' = rels
    /\ kind' = k
    /\ last_merge' = "none"
    /\ UNCHANGED <<veryl_downloads, verylup_downloads>>

\* name.strip_prefix("v").unwrap(), Version::parse(..).unwrap(), unreachable!()
PushReleasePanic ==
    /\ rel_pc = "push"
    /\ releases # <<>>
    /\ ~ReleaseOk(Head(releases))
    /\ rel_pc' = "panic"
    /\ last_merge' = "none"
    /\ UNCHANGED <<veryl_downloads, verylup_downloads, releases, kind>>

PushReleaseStep ==
    /\ rel_pc = "push"
    /\ releases # <<>>
    /\ ReleaseOk(Head(releases))
    /\ LET release  == Head(releases)
           ver      == Unwrap(ReleaseVersion(release))
           download == [counts |-> CountsOf(release.assets)]
           old      == IF kind = "Veryl" THEN veryl_downloads ELSE verylup_downloads
           new      == MergeDownload(old, ver, download)
       IN  /\ IF kind = "Veryl"
              THEN /\ veryl_downloads' = new
                   /\ UNCHANGED verylup_downloads
              ELSE /\ verylup_downloads' = new
                   /\ UNCHANGED veryl_downloads
           /\ last_merge' = IF ver \notin DOMAIN old THEN "first"
                            ELSE IF new = old THEN "same" ELSE "appended"
    /\ releases' = Tail(releases)
    /\ UNCHANGED <<rel_pc, kind>>

PushReleaseEnd ==
    /\ rel_pc = "push"
    /\ releases = <<>>
    /\ rel_pc' = "idle"
    /\ UNCHANGED <<veryl_downloads, verylup_downloads, releases, kind, last_merge>>

(***************************************************************************)
(* The migration prober, src/utils.rs.  The compiler is a child process:   *)
(* each Command::output() either cannot be launched ("err", which `?`      *)
(* propagates), or exits with success ("ok") or failure ("fail").  resp is *)
(* what the environment answers to the first, second, ... command of one   *)
(* veryl_build call; calls is the list of commands run so far, each with   *)
(* its arguments and its outcome.                                          *)
(***************************************************************************)
Command(step, args, out) == [step |-> step, args |-> args, out |-> out]

\* a version string "+0.<minor>" or "+<x>": the numbers after the "+"
MigratePin(minor) == <<0, minor>>

\* vec![x, "build"] or vec!["build"], then "--check" when info.compare
BuildArgs(info) ==
    [pin |-> info.version_arg, cmd |-> "build", check |-> info.compare]

\* vec![&version_string, "migrate"]
MigrateArgs(minor) ==
    [pin |-> Some(MigratePin(minor)), cmd |-> "migrate", check |-> FALSE]

\* a rebuild that drops the version argument
RebuildArgsUnpinned(info) ==
    [pin |-> None, cmd |-> "build", check |-> info.compare]

\* the second build runs with the build_args of the first
RebuildArgs(info) == BuildArgs(info)

\* a prober that migrates whatever the major version
MigrationDefinedAlways(ver) == TRUE

MigrationDefined(ver) == ver.major = 0

\* a replay that gives up at the first step that fails
ReplayAbortsOnFailure(out) == out # "ok"

\* `let _ = Command::...output()?`: only a launch error ends the replay
ReplayAborts(out) == out = "err"

\* a probe that does not stop at a migrate that succeeds
RECURSIVE MigrateProbeNoBreak(_, _, _)
MigrateProbeNoBreak(minor, resp, calls) ==
    IF minor > 0
    THEN LET out    == resp[Len(calls) + 1]
             calls2 == Append(calls, Command("probe", MigrateArgs(minor), out))
         IN  IF out = "err"
             THEN [err |-> TRUE, migrate_success |-> FALSE, minor |-> minor,
                   calls |-> calls2]
             ELSE MigrateProbeNoBreak(minor - 1, resp, calls2)
    ELSE [err |-> FALSE, migrate_success |-> FALSE, minor |-> minor, calls |-> calls]

\* while minor > 0 { migrate +0.minor; break on success; minor -= 1 }
RECURSIVE MigrateProbe(_, _, _)
MigrateProbe(minor, resp, calls) ==
    IF minor > 0
    THEN LET out    == resp[Len(calls) + 1]
             calls2 == Append(calls, Command("probe", MigrateArgs(minor), out))
         IN  IF out = "err"
             THEN [err |-> TRUE, migrate_success |-> FALSE, minor |-> minor,
                   calls |-> calls2]
             ELSE IF out = "ok"
             THEN [err |-> FALSE, migrate_success |-> TRUE, minor |-> minor,
                   calls |-> calls2]
             ELSE MigrateProbe(minor - 1, resp, calls2)
    ELSE [err |-> FALSE, migrate_success |-> FALSE, minor |-> minor, calls |-> calls]

\* a replay that runs one step past the compiler's own minor version
RECURSIVE MigrateReplayOneMore(_, _, _, _)
MigrateReplayOneMore(ver, minor, resp, calls) ==
    IF ver.minor + 1 >= minor
    THEN LET out    == resp[Len(calls) + 1]
             calls2 == Append(calls, Command("replay", MigrateArgs(minor), out))
         IN  IF ReplayAborts(out)
             THEN [err |-> TRUE, calls |-> calls2]
             ELSE MigrateReplayOneMore(ver, minor + 1, resp, calls2)
    ELSE [err |-> FALSE, calls |-> calls]

\* while version.minor >= minor { migrate +0.minor; minor += 1 }
RECURSIVE MigrateReplay(_, _, _, _)
MigrateReplay(ver, minor, resp, calls) ==
    IF ver.minor >= minor
    THEN LET out    == resp[Len(calls) + 1]
             calls2 == Append(calls, Command("replay", MigrateArgs(minor), out))
         IN  IF ReplayAborts(out)
             THEN [err |-> TRUE, calls |-> calls2]
             ELSE MigrateReplay(ver, minor + 1, resp, calls2)
    ELSE [err |-> FALSE, calls |-> calls]

\* a prober that does not look at the major version
migrateAnyMajor(ver, resp, calls) ==
    LET probe == MigrateProbe(ver.minor, resp, calls)
    IN  IF probe.err
        THEN [err |-> TRUE, calls |-> probe.calls]
        ELSE IF probe.migrate_success
        THEN MigrateReplay(ver, probe.minor, resp, probe.calls)
        ELSE [err |-> FALSE, calls |-> probe.calls]

migrate(ver, resp, calls) ==
    IF MigrationDefined(ver)
    THEN LET probe == MigrateProbe(ver.minor, resp, calls)
         IN  IF probe.err
             THEN [err |-> TRUE, calls |-> probe.calls]
             ELSE IF probe.migrate_success
             THEN MigrateReplay(ver, probe.minor, resp, probe.calls)
             ELSE [err |-> FALSE, calls |-> probe.calls]
    ELSE [err |-> FALSE, calls |-> calls]

\* err: the call returned Err; result: the bool of Ok(..); migrated: *migrated
veryl_build(info, mig, resp) ==
    LET first  == resp[1]
        calls1 == <<Command("first", BuildArgs(info), first)>>
    IN  IF first = "err"
        THEN [err |-> TRUE, result |-> FALSE, migrated |-> mig, calls |-> calls1]
        ELSE IF first = "ok"
        THEN [err |-> FALSE, result |-> TRUE, migrated |-> mig, calls |-> calls1]
        ELSE LET m == migrate(info.version, resp, calls1)
             IN  IF m.err
                 THEN [err |-> TRUE, result |-> FALSE, migrated |-> TRUE,
                       calls |-> m.calls]
                 ELSE LET out    == resp[Len(m.calls) + 1]
                          calls2 == Append(m.calls,
                                           Command("rebuild", RebuildArgs(info), out))
                      IN  [err |-> out = "err", result |-> out = "ok",
                           migrated |-> TRUE, calls |-> calls2]

(***************************************************************************)
(* The inputs of veryl_build.                                              *)
(***************************************************************************)
MaxMinor == 3       \* the largest minor version of a 0.x compiler

Version(major, minor) == [major |-> major, minor |-> minor, patch |-> 0]

ProbedVersions ==
    { Version(0, m) : m \in 0..MaxMinor } \cup { Version(1, 0), Version(1, MaxMinor) }

\* no call runs more commands: two builds, minor probes, minor replays
MaxCommands(ver) == 2 + 2 * ver.minor

\* the answers of the environment: exit statuses, and at most one launch error
\* (the call ends at the first)
Responses(n) ==
    { [i \in 1..n |-> IF i = e THEN "err" ELSE f[i]] :
          f \in [1..n -> {"ok", "fail"}], e \in 0..n }

VersionArgs == { None, Some(<<0, 1, 0>>) }

VerylBuildInfo ==
    [version : ProbedVersions, version_arg : VersionArgs, compare : BOOLEAN]

NoRet == [err |-> FALSE, result |-> FALSE, migrated |-> FALSE, calls |-> <<>>]

VbIdle ==
    /\ vb_pc = "ready"
    /\ vb_info = [version |-> Version(0, 0), version_arg |-> None, compare |-> FALSE]
    /\ vb_migrated = FALSE
    /\ vb_ret = NoRet

VbInit ==
    /\ vb_pc = "ready"
    /\ vb_info \in VerylBuildInfo
    /\ vb_migrated \in BOOLEAN
    /\ vb_ret = NoRet

VerylBuildCall(resp) ==
    /\ vb_pc = "ready"
    /\ LET ret == veryl_build(vb_info, vb_migrated, resp)
       IN  /\ vb_ret' = ret
           /\ vb_migrated' = ret.migrated
    /\ vb_pc' = "done"
    /\ UNCHANGED vb_info

\* the caller goes on to its next call, with another root or other arguments
VerylBuildAgain(info) ==
    /\ vb_pc = "done"
    /\ ~vb_ret.err
    /\ vb_pc' = "ready"
    /\ vb_info' = info
    /\ vb_ret' = NoRet
    /\ UNCHANGED vb_migrated

(***************************************************************************)
(* The project registry, src/db.rs:136-153.                                *)
(***************************************************************************)
Url(owner, repo) == <<"https://github.com", owner, repo>>

Urls == { Url("veryl-lang", "veryl"), Url("veryl-lang", "std") }

\* a lookup that finds nothing
FindProjectNone(registry, url) == {}

\* the ids find_project may return: the loop returns at the first match
FindProject(registry, url) ==
    { id \in DOMAIN registry : registry[id].url = url }

\* an id that restarts at 0 for every insert
NewProjectIdZero(registry) == 0

\* self.projects.len() as u64
NewProjectId(registry) == Cardinality(DOMAIN registry)

\* HashMap::insert
MapInsert(map, key, value) ==
    [k \in DOMAIN map \cup {key} |-> IF k = key THEN value ELSE map[k]]

InsertProject(url) ==
    /\ b_pc = "idle"
    /\ LET prj   == [url |-> url, build_logs |-> <<>>]
           found == FindProject(db_projects, url)
       IN  IF found # {}
           THEN /\ \E id \in found : ins_ret' = Some([url |-> url, id |-> id])
                /\ UNCHANGED db_projects
           ELSE LET id == NewProjectId(db_projects)
                IN  /\ db_projects' = MapInsert(db_projects, id, prj)
                    /\ ins_ret' = Some([url |-> url, id |-> id])
    /\ prev_run' = None
    /\ UNCHANGED <<upstream, b_pc, b_result, loop_vars, iter_vars, runs, repeat>>

(***************************************************************************)
(* Db::build, src/db.rs:306-491.                                           *)
(***************************************************************************)
MaxRuns == 2        \* runs of Db::build

Gone == "gone"      \* the clone fails: there is no checkout to resolve HEAD in

Revs == {"r1"}

CompilerVersions == { Version(0, 1), Version(1, 0) }

OptCheck == [all : BOOLEAN, veryl_version : VersionArgs, ref_version : VersionArgs]

Opts == {None} \cup { Some(o) : o \in OptCheck }

BuildLog(r, v, result) == [rev |-> r, veryl_version |-> v, result |-> result]

\* prj.build_logs.last()
LatestLog(prj) ==
    IF prj.build_logs = <<>> THEN None ELSE Some(Last(prj.build_logs))

\* self.projects.clone() sorted by id
RECURSIVE SortedById(_, _)
SortedById(registry, ids) ==
    IF ids = {} THEN <<>>
    ELSE LET id == CHOOSE x \in ids : \A y \in ids : x <= y
         IN  <<[id |-> id, prj |-> registry[id]]>> \o SortedById(registry, ids \ {id})

\* a skip decision that does not look at the flag
SkipKnownFailureAnyFlag(o, prj) ==
    /\ o # None
    /\ LatestLog(prj) # None
    /\ ~Unwrap(LatestLog(prj)).result

\* lines 350-357: a SelectiveCheck run passes over a project that failed last
SkipKnownFailure(o, prj) ==
    /\ o # None
    /\ LatestLog(prj) # None
    /\ ~Unwrap(LatestLog(prj)).result
    /\ ~Unwrap(o).all

\* a comparison that lets only a passing log stand for the pair
SameAsLatestPassed(latest_log, r, v) ==
    latest_log.rev = r /\ latest_log.veryl_version = v /\ latest_log.result

SameAsLatest(latest_log, r, v) ==
    latest_log.rev = r /\ latest_log.veryl_version = v

\* an idempotence check applied in the other mode
SkipUnchangedInverted(o, prj, r, v) ==
    /\ o # None
    /\ LatestLog(prj) # None
    /\ SameAsLatest(Unwrap(LatestLog(prj)), r, v)

\* an idempotence check that never skips
SkipUnchangedNever(o, prj, r, v) == FALSE

\* lines 395-402: an update run passes over an unchanged (rev, version) pair
SkipUnchanged(o, prj, r, v) ==
    /\ o = None
    /\ LatestLog(prj) # None
    /\ SameAsLatest(Unwrap(LatestLog(prj)), r, v)

\* prj.url.path().strip_prefix('/'), under the build directory
PrjDir(url) == <<"build">> \o Tail(url)

\* opt.veryl_version as "+{x}"
VersionArg(o) == IF o = None THEN None ELSE Unwrap(o).veryl_version

RefVersion(o) == IF o = None THEN None ELSE Unwrap(o).ref_version

BuildInfo(v, version_arg, compare) ==
    [version |-> v, version_arg |-> version_arg, compare |-> compare]

\* lines 450-454
FailPath(veryl_root, prj_dir) ==
    IF veryl_root = prj_dir THEN <<".">>
    ELSE SubSeq(veryl_root, Len(prj_dir) + 1, Len(veryl_root))

Current == projects[idx]

\* a commit that keeps only the newest log of a project
RECURSIVE CommitLogsReplacing(_, _)
CommitLogsReplacing(registry, logs) ==
    IF logs = <<>> THEN registry
    ELSE LET id  == Head(logs).id
             reg == IF id \in DOMAIN registry
                    THEN [registry EXCEPT ![id].build_logs = <<Head(logs).log>>]
                    ELSE registry
         IN  CommitLogsReplacing(reg, Tail(logs))

\* a commit that stores every log twice
RECURSIVE CommitLogsTwice(_, _)
CommitLogsTwice(registry, logs) ==
    IF logs = <<>> THEN registry
    ELSE LET id  == Head(logs).id
             reg == IF id \in DOMAIN registry
                    THEN [registry EXCEPT
                            ![id].build_logs = Append(Append(@, Head(logs).log),
                                                      Head(logs).log)]
                    ELSE registry
         IN  CommitLogsTwice(reg, Tail(logs))

\* lines 484-488: entry(id).and_modify(push) for each pair, in order
RECURSIVE CommitLogs(_, _)
CommitLogs(registry, logs) ==
    IF logs = <<>> THEN registry
    ELSE LET id  == Head(logs).id
             reg == IF id \in DOMAIN registry
                    THEN [registry EXCEPT ![id].build_logs = Append(@, Head(logs).log)]
                    ELSE registry
         IN  CommitLogs(reg, Tail(logs))

DbInit ==
    /\ db_projects = <<>>
    /\ upstream \in [Urls -> Revs \cup {Gone}]
    /\ ins_ret = None

DbEmpty ==
    /\ db_projects = <<>>
    /\ upstream = [u \in Urls |-> Gone]
    /\ ins_ret = None

IterInit ==
    /\ rev = ""
    /\ veryl_roots = <<>>
    /\ root_i = 1
    /\ migrated = FALSE
    /\ prj_result = TRUE
    /\ fail_paths = <<>>
    /\ check_result = FALSE
    /\ outcome = "none"
    /\ root_results = <<>>
    /\ invoked = {}
    /\ root_builds = <<>>
    /\ printed = None

RunIdle ==
    /\ b_pc = "idle"
    /\ b_result = "none"
    /\ opt = None
    /\ version = Version(0, 0)
    /\ projects = <<>>
    /\ idx = 1
    /\ build_logs = <<>>
    /\ IterInit
    /\ runs = 0
    /\ prev_run = None
    /\ repeat = FALSE

\* the locals of an iteration go out of scope
IterReset ==
    /\ rev' = ""
    /\ veryl_roots' = <<>>
    /\ root_i' = 1
    /\ migrated' = FALSE
    /\ prj_result' = TRUE
    /\ fail_paths' = <<>>
    /\ check_result' = FALSE
    /\ outcome' = "none"
    /\ root_results' = <<>>
    /\ invoked' = {}
    /\ root_builds' = <<>>
    /\ printed' = None

\* the locals of the run go out of scope
RunReset ==
    /\ opt' = None
    /\ version' = Version(0, 0)
    /\ projects' = <<>>
    /\ idx' = 1
    /\ build_logs' = <<>>
    /\ IterReset

\* the remote repository moves, appears or disappears between two runs
UpstreamChange(url, u) ==
    /\ b_pc = "idle"
    /\ upstream[url] # u
    /\ upstream' = [upstream EXCEPT ![url] = u]
    /\ prev_run' = None
    /\ UNCHANGED <<db_projects, ins_ret, b_pc, b_result, loop_vars, iter_vars, runs,
                   repeat>>

\* lines 306-348: the scratch directory, the compiler, its version, the clone
BuildStart(o, v) ==
    /\ b_pc = "idle"
    /\ runs' = runs + 1
    /\ b_pc' = "loop"
    /\ b_result' = "running"
    /\ opt' = o
    /\ version' = v
    /\ projects' = SortedById(db_projects, DOMAIN db_projects)
    /\ idx' = 1
    /\ build_logs' = <<>>
    /\ IterReset
    /\ repeat' = (o = None /\ prev_run = Some([update |-> TRUE, version |-> v]))
    /\ prev_run' = None
    /\ ins_ret' = None
    /\ UNCHANGED <<db_projects, upstream>>

\* an abort that stores the logs gathered so far
AbortCommitting ==
    /\ b_pc' = "idle"
    /\ b_result' = "err"
    /\ RunReset
    /\ prev_run' = None
    /\ db_projects' = CommitLogs(db_projects, build_logs)
    /\ UNCHANGED <<upstream, ins_ret, runs, repeat>>

\* any `?` of the run that returns Err: the run ends, nothing is committed
Abort ==
    /\ b_pc' = "idle"
    /\ b_result' = "err"
    /\ RunReset
    /\ prev_run' = None
    /\ UNCHANGED <<db_vars, runs, repeat>>

\* lines 309-343: the scratch directory, the download or the compiler fails
BuildStartError ==
    /\ b_pc = "idle"
    /\ runs' = runs + 1
    /\ b_result' = "err"
    /\ prev_run' = None
    /\ repeat' = FALSE
    /\ ins_ret' = None
    /\ UNCHANGED <<db_projects, upstream, b_pc, loop_vars, iter_vars>>

\* lines 362-368, 393, 405-406: git cannot be launched, or the walk fails
ProjectError ==
    /\ b_pc = "loop"
    /\ idx <= Len(projects)
    /\ ~SkipKnownFailure(opt, Current.prj)
    /\ Abort

\* lines 350-357
ProjectSkip ==
    /\ b_pc = "loop"
    /\ idx <= Len(projects)
    /\ SkipKnownFailure(opt, Current.prj)
    /\ outcome' = "skipped"
    /\ b_pc' = "next"
    /\ UNCHANGED <<db_vars, b_result, loop_vars, rev, veryl_roots, root_i, migrated,
                   prj_result, fail_paths, check_result, root_results, invoked, root_builds,
                   printed, runs,
                   prev_run, repeat>>

\* a checkout failure recorded as a pass
CheckoutFailureLogPassing(v) == BuildLog("", v, TRUE)

\* lines 380-384
CheckoutFailureLog(v) == BuildLog("", v, FALSE)

\* lines 373-391: rev-parse cannot run in a checkout that is not there
ProjectCheckoutFailed ==
    /\ b_pc = "loop"
    /\ idx <= Len(projects)
    /\ ~SkipKnownFailure(opt, Current.prj)
    /\ upstream[Current.prj.url] = Gone
    /\ build_logs' = Append(build_logs,
                            [id |-> Current.id, log |-> CheckoutFailureLog(version)])
    /\ printed' = Some([status |-> "Failure", fails |-> <<>>])
    /\ outcome' = "checkout_failed"
    /\ b_pc' = "next"
    /\ UNCHANGED <<db_vars, b_result, opt, version, projects, idx, rev, veryl_roots,
                   root_i, migrated, prj_result, fail_paths, check_result,
                   root_results, invoked, root_builds,
                   runs, prev_run, repeat>>

\* lines 393-402
ProjectUnchanged ==
    /\ b_pc = "loop"
    /\ idx <= Len(projects)
    /\ ~SkipKnownFailure(opt, Current.prj)
    /\ upstream[Current.prj.url] # Gone
    /\ SkipUnchanged(opt, Current.prj, upstream[Current.prj.url], version)
    /\ rev' = upstream[Current.prj.url]
    /\ outcome' = "unchanged"
    /\ b_pc' = "next"
    /\ UNCHANGED <<db_vars, b_result, loop_vars, veryl_roots, root_i, migrated,
                   prj_result, fail_paths, check_result, root_results, invoked, root_builds,
                   printed, runs,
                   prev_run, repeat>>

\* lines 393-414
ProjectDiscover(roots) ==
    /\ b_pc = "loop"
    /\ idx <= Len(projects)
    /\ ~SkipKnownFailure(opt, Current.prj)
    /\ upstream[Current.prj.url] # Gone
    /\ ~SkipUnchanged(opt, Current.prj, upstream[Current.prj.url], version)
    /\ rev' = upstream[Current.prj.url]
    /\ veryl_roots' = [i \in 1..Len(roots) |-> PrjDir(Current.prj.url) \o roots[i]]
    /\ root_i' = 1
    /\ migrated' = FALSE
    /\ prj_result' = TRUE
    /\ fail_paths' = <<>>
    /\ root_results' = <<>>
    /\ b_pc' = "roots"
    /\ UNCHANGED <<db_vars, b_result, loop_vars, check_result, outcome, invoked, root_builds,
                   printed, runs, prev_run, repeat>>

\* a project result that the last root decides alone
RootDoneLastWins(result) ==
    /\ prj_result' = result
    /\ IF ~result
       THEN fail_paths' = Append(fail_paths,
                                 FailPath(veryl_roots[root_i], PrjDir(Current.prj.url)))
       ELSE UNCHANGED fail_paths
    /\ root_results' = Append(root_results, result)
    /\ root_i' = root_i + 1
    /\ b_pc' = "roots"

\* lines 448-456 and the end of the loop body
RootDone(result) ==
    /\ IF ~result
       THEN /\ prj_result' = FALSE
            /\ fail_paths' = Append(fail_paths,
                                    FailPath(veryl_roots[root_i], PrjDir(Current.prj.url)))
       ELSE UNCHANGED <<prj_result, fail_paths>>
    /\ root_results' = Append(root_results, result)
    /\ root_i' = root_i + 1
    /\ b_pc' = "roots"

CommandsOf(calls) == { calls[i].args.cmd : i \in 1..Len(calls) }

\* what one call of veryl_build for a root was given and what it did: the
\* version argument and the --check flag of its builds, its result, whether it
\* built a second time, whether it ran the compiler's migrate at all
BuildRun(root, info, ret) ==
    [root        |-> root,
     version_arg |-> info.version_arg,
     compare     |-> info.compare,
     result      |-> ret.result,
     rebuilt     |-> Last(ret.calls).step = "rebuild",
     migrate_ran |-> "migrate" \in CommandsOf(ret.calls)]

\* lines 417-432, and 445 without a reference version
RootCheck(resp) ==
    /\ b_pc = "roots"
    /\ root_i <= Len(veryl_roots)
    /\ LET ret == veryl_build(BuildInfo(version, VersionArg(opt), FALSE), migrated, resp)
       IN  IF ret.err
           THEN Abort
           ELSE /\ invoked' = invoked \cup CommandsOf(ret.calls)
                /\ root_builds' = Append(root_builds,
                        BuildRun(root_i, BuildInfo(version, VersionArg(opt), FALSE), ret))
                /\ migrated' = ret.migrated
                /\ check_result' = ret.result
                /\ IF RefVersion(opt) = None
                   THEN RootDone(ret.result)
                   ELSE /\ b_pc' = "ref"
                        /\ UNCHANGED <<prj_result, fail_paths, root_i, root_results>>
                /\ UNCHANGED <<db_vars, b_result, loop_vars, rev, veryl_roots, outcome,
                               printed, runs, prev_run, repeat>>

\* lines 437-439: the build under the reference version, its result dropped
RootReference(resp) ==
    /\ b_pc = "ref"
    /\ LET ret == veryl_build(BuildInfo(version, RefVersion(opt), FALSE), migrated, resp)
       IN  IF ret.err
           THEN Abort
           ELSE /\ invoked' = invoked \cup CommandsOf(ret.calls)
                /\ root_builds' = Append(root_builds,
                        BuildRun(root_i, BuildInfo(version, RefVersion(opt), FALSE), ret))
                /\ migrated' = ret.migrated
                /\ b_pc' = "cmp"
                /\ UNCHANGED <<db_vars, b_result, loop_vars, rev, veryl_roots, root_i,
                               prj_result, fail_paths, check_result, outcome,
                               root_results, printed,
                               runs, prev_run, repeat>>

\* a comparison build that keeps the reference version as its argument
RootCompareUnderReference(resp) ==
    /\ b_pc = "cmp"
    /\ LET ret == veryl_build(BuildInfo(version, RefVersion(opt), TRUE), migrated, resp)
       IN  IF ret.err
           THEN Abort
           ELSE /\ invoked' = invoked \cup CommandsOf(ret.calls)
                /\ root_builds' = Append(root_builds,
                        BuildRun(root_i, BuildInfo(version, RefVersion(opt), TRUE), ret))
                /\ migrated' = ret.migrated
                /\ RootDone(ret.result)
                /\ UNCHANGED <<db_vars, b_result, loop_vars, rev, veryl_roots,
                               check_result, outcome, printed, runs, prev_run, repeat>>

\* lines 441-443: the build under the target version again, with --check
RootCompare(resp) ==
    /\ b_pc = "cmp"
    /\ LET ret == veryl_build(BuildInfo(version, VersionArg(opt), TRUE), migrated, resp)
       IN  IF ret.err
           THEN Abort
           ELSE /\ invoked' = invoked \cup CommandsOf(ret.calls)
                /\ root_builds' = Append(root_builds,
                        BuildRun(root_i, BuildInfo(version, VersionArg(opt), TRUE), ret))
                /\ migrated' = ret.migrated
                /\ RootDone(ret.result)
                /\ UNCHANGED <<db_vars, b_result, loop_vars, rev, veryl_roots,
                               check_result, outcome, printed, runs, prev_run, repeat>>

\* lines 459-481
ProjectFinish ==
    /\ b_pc = "roots"
    /\ root_i > Len(veryl_roots)
    /\ build_logs' = Append(build_logs,
                            [id |-> Current.id, log |-> BuildLog(rev, version, prj_result)])
    /\ printed' = Some([status |-> IF prj_result
                                   THEN IF migrated THEN "Migrate" ELSE "Success"
                                   ELSE "Failure",
                        fails  |-> fail_paths])
    /\ outcome' = "tested"
    /\ b_pc' = "next"
    /\ UNCHANGED <<db_vars, b_result, opt, version, projects, idx, rev, veryl_roots,
                   root_i, migrated, prj_result, fail_paths, check_result,
                   root_results, invoked, root_builds,
                   runs, prev_run, repeat>>

\* `continue`, or the end of the loop body
ProjectNext ==
    /\ b_pc = "next"
    /\ idx' = idx + 1
    /\ b_pc' = "loop"
    /\ IterReset
    /\ UNCHANGED <<db_vars, b_result, opt, version, projects, build_logs, runs,
                   prev_run, repeat>>

\* lines 484-490
BuildCommit ==
    /\ b_pc = "loop"
    /\ idx > Len(projects)
    /\ db_projects' = CommitLogs(db_projects, build_logs)
    /\ b_pc' = "idle"
    /\ b_result' = "ok"
    /\ prev_run' = Some([update |-> opt = None, version |-> version])
    /\ RunReset
    /\ UNCHANGED <<upstream, ins_ret, runs, repeat>>

(***************************************************************************)
(* Db::search and Db::update, src/db.rs:155-227.  The code search and the  *)
(* release listings are the environment: an attempt gets a page or         *)
(* nothing, a listing request gets a list of releases or fails.            *)
(***************************************************************************)
SearchRetry == 5        \* Self::search(.., 5)
BackoffBase == 30       \* let mut duration = 30

MaxUpdates == 2         \* calls of update

QuerySources  == "extension:veryl"
QueryProjects == "filename:Veryl.toml"

Page(total_count, items) == [total_count |-> total_count, items |-> items]

\* item.repository.full_name, for a repository of one of the URLs
FullName(url) == Some(Tail(url))

\* the items of a page: none, one repository, an item that does not name its
\* repository, two repositories in either order, one repository twice
ItemLists ==
    { <<>> }
        \cup { <<FullName(u)>> : u \in Urls }
        \cup { <<None, FullName(u)>> : u \in Urls }
        \cup { <<FullName(u), FullName(w)>> : u \in Urls, w \in Urls }

\* the pages the code search may answer a query with
SearchPages(query) ==
    IF query = QuerySources
    THEN { Page(None, <<>>), Page(Some(3), <<>>) }
    ELSE { Page(Some(Len(items)), items) : items \in ItemLists }

\* Url::parse(&format!("https://github.com/{}", repo))
RepoUrl(full_name) == <<"https://github.com">> \o full_name

\* page.total_count.unwrap_or(0)
UnwrapOr(o, default) == IF o = None THEN default ELSE Unwrap(o)

\* projects.into_iter().collect() and projects.sort()
RECURSIVE SortedIds(_)
SortedIds(ids) ==
    IF ids = {} THEN <<>>
    ELSE LET id == CHOOSE x \in ids : \A y \in ids : x <= y
         IN  <<id>> \o SortedIds(ids \ {id})

\* lines 183-194: insert_project for each item that names its repository;
\* find_project has one id to return, the URLs of the registry being unique
RECURSIVE InsertItems(_, _, _, _)
InsertItems(registry, items, ids, last) ==
    IF items = <<>> THEN [registry |-> registry, ids |-> ids, last |-> last]
    ELSE IF Head(items) = None THEN InsertItems(registry, Tail(items), ids, last)
    ELSE LET url   == RepoUrl(Unwrap(Head(items)))
             found == FindProject(registry, url)
             id    == IF found # {} THEN CHOOSE x \in found : TRUE
                      ELSE NewProjectId(registry)
             reg   == IF found # {} THEN registry
                      ELSE MapInsert(registry, id, [url |-> url, build_logs |-> <<>>])
         IN  InsertItems(reg, Tail(items), ids \cup {id},
                         Some([url |-> url, id |-> id]))

\* a loop that gives up one attempt early
SearchExhaustedEarly(attempts, retry) == attempts + 1 >= retry

\* for _ in 0..retry
SearchExhausted(attempts, retry) == attempts >= retry

\* the release listings a request may return
ReleaseLists ==
    { <<>> } \cup { <<r>> : r \in { [name |-> NameV010, assets |-> <<Asset(AssetLinux, 1)>>],
                                     [name |-> NameV020, assets |-> <<Asset(AssetLinux, 2)>>],
                                     [name |-> NameNoV, assets |-> <<Asset(AssetLinux, 1)>>] } }

Tracks == {"Veryl", "Verylup"}

SearchIdle ==
    /\ s_query = QuerySources
    /\ s_retry = 0
    /\ s_answers = <<>>
    /\ s_duration = 0
    /\ s_slept = <<>>

UpdIdle ==
    /\ discovered = <<>>
    /\ u_pc = "idle"
    /\ u_ret = "none"
    /\ updates = 0
    /\ SearchIdle
    /\ page = None
    /\ sources = 0
    /\ u_track = "Veryl"
    /\ u_sent = [t \in Tracks |-> 0]
    /\ veryl_releases = <<>>
    /\ verylup_releases = <<>>

\* lines 155-161: a call of search begins
SearchBegin(query, retry) ==
    /\ s_query' = query
    /\ s_retry' = retry
    /\ s_answers' = <<>>
    /\ s_duration' = BackoffBase
    /\ s_slept' = <<>>

\* the locals of search go out of scope
SearchEnd ==
    /\ s_query' = QuerySources
    /\ s_retry' = 0
    /\ s_answers' = <<>>
    /\ s_duration' = 0
    /\ s_slept' = <<>>

\* what update leaves alone outside the store and its own locals
UpdFrame ==
    UNCHANGED <<vb_vars, upstream, b_pc, b_result, loop_vars, iter_vars, runs, repeat,
                main_vars>>

\* line 176: update calls search for the number of sources
UpdateStart ==
    /\ u_pc = "idle"
    /\ b_pc = "idle"
    /\ rel_pc = "idle"
    /\ updates' = updates + 1
    /\ u_pc' = "search"
    /\ u_ret' = "running"
    /\ SearchBegin(QuerySources, SearchRetry)
    /\ page' = None
    /\ sources' = 0
    /\ u_track' = "Veryl"
    /\ u_sent' = [t \in Tracks |-> 0]
    /\ veryl_releases' = <<>>
    /\ verylup_releases' = <<>>
    /\ UNCHANGED <<rel_vars, db_vars, prev_run, discovered>>
    /\ UpdFrame

\* line 156: std::env::var("GITHUB_TOKEN").unwrap() with no token set
SearchNoToken ==
    /\ u_pc = "search"
    /\ s_answers = <<>>
    /\ u_pc' = "dead"
    /\ u_ret' = "panic"
    /\ UNCHANGED <<rel_vars, db_vars, prev_run, discovered, updates, search_vars, page,
                   sources, u_track, u_sent, veryl_releases, verylup_releases>>
    /\ UpdFrame

\* lines 157-159: the client cannot be built, and update returns the error
SearchBuildError ==
    /\ u_pc = "search"
    /\ s_answers = <<>>
    /\ u_pc' = "idle"
    /\ u_ret' = "err"
    /\ UNCHANGED <<rel_vars, db_vars, prev_run, discovered, updates, search_vars, page,
                   sources, u_track, u_sent, veryl_releases, verylup_releases>>
    /\ UpdFrame

\* a delay that grows by the base instead of doubling
BackoffLinear(duration) == duration + BackoffBase

\* line 168: duration *= 2
Backoff(duration) == duration * 2

\* lines 163-170: one pass of the loop
SearchAttempt(answer) ==
    /\ u_pc = "search"
    /\ ~SearchExhausted(Len(s_answers), s_retry)
    /\ s_answers' = Append(s_answers, answer)
    /\ IF answer # None
       THEN /\ page' = answer
            /\ u_pc' = "found"
            /\ UNCHANGED <<s_duration, s_slept>>
       ELSE /\ s_slept' = Append(s_slept, s_duration)
            /\ s_duration' = Backoff(s_duration)
            /\ UNCHANGED <<page, u_pc>>
    /\ UNCHANGED <<rel_vars, db_vars, prev_run, discovered, u_ret, updates, s_query,
                   s_retry, sources, u_track, u_sent, veryl_releases, verylup_releases>>
    /\ UpdFrame

\* line 172, and the `?` of lines 176 and 179
SearchRetryOver ==
    /\ u_pc = "search"
    /\ SearchExhausted(Len(s_answers), s_retry)
    /\ u_pc' = "idle"
    /\ u_ret' = "retry over"
    /\ UNCHANGED <<rel_vars, db_vars, prev_run, discovered, updates, search_vars, page,
                   sources, u_track, u_sent, veryl_releases, verylup_releases>>
    /\ UpdFrame

\* lines 177-179: the count of the first page, then the second search
UpdateSources ==
    /\ u_pc = "found"
    /\ s_query = QuerySources
    /\ sources' = UnwrapOr(Unwrap(page).total_count, 0)
    /\ SearchBegin(QueryProjects, SearchRetry)
    /\ u_pc' = "search"
    /\ UNCHANGED <<rel_vars, db_vars, prev_run, discovered, u_ret, updates, page,
                   u_track, u_sent, veryl_releases, verylup_releases>>
    /\ UpdFrame

\* lines 180-205: the projects of the second page, and push_discovered
UpdateItems ==
    /\ u_pc = "found"
    /\ s_query = QueryProjects
    /\ LET ins == InsertItems(db_projects, Unwrap(page).items, {}, ins_ret)
       IN  /\ db_projects' = ins.registry
           /\ ins_ret' = ins.last
           /\ discovered' = Append(discovered,
                                   [sources |-> sources, projects |-> SortedIds(ins.ids)])
    /\ prev_run' = None
    /\ u_pc' = "request"
    /\ u_track' = "Veryl"
    /\ SearchEnd
    /\ page' = None
    /\ sources' = 0
    /\ UNCHANGED <<rel_vars, u_ret, updates, u_sent, veryl_releases, verylup_releases>>
    /\ UpdFrame

\* lines 207-221: the client, the request or the decoding fails: `?`
ReleaseRequestFails ==
    /\ u_pc = "request"
    /\ u_sent' = [u_sent EXCEPT ![u_track] = @ + 1]
    /\ u_pc' = "idle"
    /\ u_ret' = "err"
    /\ UNCHANGED <<rel_vars, db_vars, prev_run, discovered, updates, search_vars, page,
                   sources, u_track, veryl_releases, verylup_releases>>
    /\ UpdFrame

\* lines 210-215
ReleaseRequestVeryl(rels) ==
    /\ u_pc = "request"
    /\ u_track = "Veryl"
    /\ u_sent' = [u_sent EXCEPT !["Veryl"] = @ + 1]
    /\ veryl_releases' = rels
    /\ u_track' = "Verylup"
    /\ UNCHANGED <<rel_vars, db_vars, prev_run, discovered, u_pc, u_ret, updates,
                   search_vars, page, sources, verylup_releases>>
    /\ UpdFrame

\* lines 216-223: the second listing, then push_release(&veryl_releases, Veryl)
ReleaseRequestVerylup(rels) ==
    /\ u_pc = "request"
    /\ u_track = "Verylup"
    /\ TotalSamples + Len(veryl_releases) + Len(rels) <= MaxSamples
    /\ u_sent' = [u_sent EXCEPT !["Verylup"] = @ + 1]
    /\ verylup_releases' = rels
    /\ PushReleaseBegin(veryl_releases, "Veryl")
    /\ u_pc' = "push"
    /\ UNCHANGED <<db_vars, prev_run, discovered, u_ret, updates, search_vars, page,
                   sources, u_track, veryl_releases>>
    /\ UpdFrame

\* push_release at work for update
UpdatePushStep ==
    /\ u_pc = "push"
    /\ PushReleaseStep
    /\ UNCHANGED <<db_vars, prev_run, upd_vars>>
    /\ UpdFrame

\* push_release panics, and the process with it
UpdatePushPanic ==
    /\ u_pc = "push"
    /\ PushReleasePanic
    /\ u_pc' = "dead"
    /\ u_ret' = "panic"
    /\ UNCHANGED <<db_vars, prev_run, discovered, updates, search_vars, page, sources,
                   u_track, u_sent, veryl_releases, verylup_releases>>
    /\ UpdFrame

\* line 223 returns
UpdatePushedVeryl ==
    /\ u_pc = "push"
    /\ kind = "Veryl"
    /\ PushReleaseEnd
    /\ u_pc' = "pushed"
    /\ UNCHANGED <<db_vars, prev_run, discovered, u_ret, updates, search_vars, page,
                   sources, u_track, u_sent, veryl_releases, verylup_releases>>
    /\ UpdFrame

\* line 224: push_release(&verylup_releases, Verylup)
UpdatePushVerylup ==
    /\ u_pc = "pushed"
    /\ PushReleaseBegin(verylup_releases, "Verylup")
    /\ u_pc' = "push"
    /\ UNCHANGED <<db_vars, prev_run, discovered, u_ret, updates, search_vars, page,
                   sources, u_track, u_sent, veryl_releases, verylup_releases>>
    /\ UpdFrame

\* lines 224-226: Ok(())
UpdateEnd ==
    /\ u_pc = "push"
    /\ kind = "Verylup"
    /\ PushReleaseEnd
    /\ u_pc' = "idle"
    /\ u_ret' = "ok"
    /\ u_track' = "Veryl"
    /\ veryl_releases' = <<>>
    /\ verylup_releases' = <<>>
    /\ UNCHANGED <<db_vars, prev_run, discovered, updates, search_vars, page, sources,
                   u_sent>>
    /\ UpdFrame

(***************************************************************************)
(* The specifications.                                                     *)
(***************************************************************************)
(***************************************************************************)
(* The program of src/main.rs: one process per command line, with its Db   *)
(* in memory, and the file db/db.json that it loads and saves.  The code   *)
(* search, the release listing, the clones and the compiler are the        *)
(* environment.                                                            *)
(***************************************************************************)
MaxProcesses == 2       \* command lines run one after the other

Document(d, p, dl) == [discovered |-> d, projects |-> p, downloads |-> dl]

\* Db::default()
EmptyDocument == Document(<<>>, <<>>, <<>>)

\* db/db.json: no such file, a file that decodes to a document, or a file
\* that was truncated and not written to its end
Absent == [state |-> "absent", db |-> EmptyDocument]

Torn == [state |-> "torn", db |-> EmptyDocument]

Stored(db) == [state |-> "stored", db |-> db]

\* if path.exists() { Db::load(&path)? } else { Db::default() }: None is Err
LoadOrDefault(file) ==
    IF file.state = "absent" THEN Some(EmptyDocument)
    ELSE IF file.state = "stored" THEN Some(file.db)
    ELSE None

\* Db::save when all its steps succeed
Save(db) == Stored(db)

\* Db::save when a step fails: File::create fails and the file is as before,
\* or the file is truncated and encoding or writing fails
SaveFailures(file) == {file, Torn}

\* the match on asset.name: four exact names
MainPlatformOf(name) ==
    IF name = <<"veryl", "-", "x86_64", "-", "linux", ".zip">> THEN "X86_64Linux"
    ELSE IF name = <<"veryl", "-", "x86_64", "-", "mac", ".zip">> THEN "X86_64Mac"
    ELSE IF name = <<"veryl", "-", "x86_64", "-", "windows", ".zip">> THEN "X86_64Windows"
    ELSE IF name = <<"veryl", "-", "aarch64", "-", "mac", ".zip">> THEN "Aarch64Mac"
    ELSE "unreachable"

RECURSIVE MainCountsOf(_)
MainCountsOf(assets) ==
    IF assets = <<>> THEN <<>>
    ELSE LET a == Last(assets)
             rest == MainCountsOf(SubSeq(assets, 1, Len(assets) - 1))
         IN  (MainPlatformOf(a.name) :> a.download_count) @@ rest

\* no unwrap() and no unreachable!() panics on the release
MainReleaseOk(release) ==
    /\ ReleaseVersion(release) # None
    /\ \A i \in 1..Len(release.assets) :
            MainPlatformOf(release.assets[i].name) # "unreachable"

\* the listings of the release API: none, one release with either count, and
\* listings with a release that breaks the contract, first or after a good one
MainReleaseLists ==
    { <<>>,
      << [name |-> NameV010, assets |-> <<Asset(AssetLinux, 1)>>] >>,
      << [name |-> NameV010, assets |-> <<Asset(AssetLinux, 2)>>] >>,
      << [name |-> NameV010, assets |-> <<Asset(AssetLinux, 2)>>],
         [name |-> NameNoV, assets |-> <<Asset(AssetLinux, 1)>>] >>,
      << [name |-> NameV020, assets |-> <<Asset(AssetLinux, 1)>>],
         [name |-> NameV010, assets |-> <<Asset(AssetOther, 1)>>] >>,
      << [name |-> NameNoSem, assets |-> <<Asset(AssetLinux, 1)>>] >> }

\* the items of the second page
MainItemLists ==
    { <<>>,
      <<FullName(Url("veryl-lang", "veryl"))>>,
      <<None, FullName(Url("veryl-lang", "std"))>>,
      <<FullName(Url("veryl-lang", "veryl")), FullName(Url("veryl-lang", "std"))>> }

\* page.total_count of the first page
MainCounts == { None, Some(3) }

\* what `veryl --version` prints, without "veryl "
MainVersions == { "0.1.0", "0.2.0" }

MainOpts == { None, Some([all |-> FALSE]), Some([all |-> TRUE]) }

MainIdle ==
    /\ disk = Absent
    /\ loaded = Absent
    /\ m_pc = "start"
    /\ m_ret = "none"
    /\ m_opt = None
    /\ m_db = EmptyDocument
    /\ m_rels = <<>>
    /\ m_version = ""
    /\ m_todo = {}
    /\ m_logs = <<>>
    /\ m_runs = 0

\* a process that ends: its position stays where it ended
MainExit(ret) ==
    /\ m_ret' = ret
    /\ UNCHANGED <<m_pc, m_opt, m_db, m_rels, m_version, m_todo, m_logs, m_runs, loaded>>

\* main, lines 464-477: the database directory, then the load; a file that
\* does not decode, or a failure of the file system, ends the process
MainStart(o, io_ok) ==
    /\ m_ret # "running"
    /\ m_runs < MaxProcesses
    /\ m_runs' = m_runs + 1
    /\ loaded' = disk
    /\ m_opt' = o
    /\ m_rels' = <<>>
    /\ m_version' = ""
    /\ m_todo' = {}
    /\ m_logs' = <<>>
    /\ LET db == LoadOrDefault(disk)
       IN  IF io_ok /\ db # None
           THEN /\ m_db' = Unwrap(db)
                /\ m_ret' = "running"
                /\ m_pc' = IF o = None THEN "update" ELSE "build"
           ELSE /\ m_db' = EmptyDocument
                /\ m_ret' = "err"
                /\ m_pc' = "start"
    /\ UNCHANGED disk

\* update, line 167: std::env::var("GITHUB_TOKEN").unwrap()
MainUpdatePanic ==
    /\ m_ret = "running"
    /\ m_pc = "update"
    /\ MainExit("panic")
    /\ UNCHANGED disk

\* update, the `?` of lines 167-177 (the client and the two searches, which
\* are sent once each) and of lines 205-213 (the release listing)
MainUpdateError ==
    /\ m_ret = "running"
    /\ m_pc \in {"update", "release"}
    /\ MainExit("err")
    /\ UNCHANGED disk

\* update, lines 172-203: the two pages, insert_project for the items of the
\* second, push_discovered
MainDiscover(total_count, items) ==
    /\ m_ret = "running"
    /\ m_pc = "update"
    /\ LET ins == InsertItems(m_db.projects, items, {}, None)
       IN  m_db' = [m_db EXCEPT
                        !.projects = ins.registry,
                        !.discovered = Append(@, [sources  |-> UnwrapOr(total_count, 0),
                                                  projects |-> SortedIds(ins.ids)])]
    /\ m_pc' = "release"
    /\ UNCHANGED <<disk, loaded, m_ret, m_opt, m_rels, m_version, m_todo, m_logs, m_runs>>

\* update, lines 205-215: the listing arrives and push_release is called
MainReleases(rels) ==
    /\ m_ret = "running"
    /\ m_pc = "release"
    /\ m_rels' = rels
    /\ m_pc' = "push"
    /\ UNCHANGED <<disk, loaded, m_ret, m_opt, m_db, m_version, m_todo, m_logs, m_runs>>

\* a push_release that saves the document after each release
MainPushStepSaving ==
    /\ m_ret = "running"
    /\ m_pc = "push"
    /\ m_rels # <<>>
    /\ MainReleaseOk(Head(m_rels))
    /\ LET release  == Head(m_rels)
           ver      == Unwrap(ReleaseVersion(release))
           download == [counts |-> MainCountsOf(release.assets)]
       IN  /\ m_db' = [m_db EXCEPT !.downloads = MergeDownload(@, ver, download)]
           /\ disk' = Save(m_db')
    /\ m_rels' = Tail(m_rels)
    /\ UNCHANGED <<loaded, m_pc, m_ret, m_opt, m_version, m_todo, m_logs, m_runs>>

\* push_release, lines 66-96: one iteration of the loop over the releases
MainPushStep ==
    /\ m_ret = "running"
    /\ m_pc = "push"
    /\ m_rels # <<>>
    /\ MainReleaseOk(Head(m_rels))
    /\ LET release  == Head(m_rels)
           ver      == Unwrap(ReleaseVersion(release))
           download == [counts |-> MainCountsOf(release.assets)]
       IN  m_db' = [m_db EXCEPT !.downloads = MergeDownload(@, ver, download)]
    /\ m_rels' = Tail(m_rels)
    /\ UNCHANGED <<disk, loaded, m_pc, m_ret, m_opt, m_version, m_todo, m_logs, m_runs>>

\* push_release, lines 67-68 and 78: an unwrap() or the unreachable!() panics
MainPushPanic ==
    /\ m_ret = "running"
    /\ m_pc = "push"
    /\ m_rels # <<>>
    /\ ~MainReleaseOk(Head(m_rels))
    /\ MainExit("panic")
    /\ UNCHANGED disk

\* update, line 217: db.save(JSON_PATH)?
MainUpdateSave ==
    /\ m_ret = "running"
    /\ m_pc = "push"
    /\ m_rels = <<>>
    /\ disk' = Save(m_db)
    /\ m_pc' = "plot"
    /\ UNCHANGED <<loaded, m_ret, m_opt, m_db, m_rels, m_version, m_todo, m_logs, m_runs>>

MainUpdateSaveError(file) ==
    /\ m_ret = "running"
    /\ m_pc = "push"
    /\ m_rels = <<>>
    /\ disk' = file
    /\ MainExit("err")

\* main, line 482: plot(&db)?
MainPlot ==
    /\ m_ret = "running"
    /\ m_pc = "plot"
    /\ m_pc' = "build"
    /\ UNCHANGED <<disk, loaded, m_ret, m_opt, m_db, m_rels, m_version, m_todo, m_logs,
                   m_runs>>

MainPlotError ==
    /\ m_ret = "running"
    /\ m_pc = "plot"
    /\ MainExit("err")
    /\ UNCHANGED disk

\* build, lines 303-339: the build directory, the compiler and its version
MainBuildStart(v) ==
    /\ m_ret = "running"
    /\ m_pc = "build"
    /\ m_version' = v
    /\ m_todo' = DOMAIN m_db.projects
    /\ m_logs' = <<>>
    /\ m_pc' = "loop"
    /\ UNCHANGED <<disk, loaded, m_ret, m_opt, m_db, m_rels, m_runs>>

\* build: a `?` of lines 307-338, or of the clone, the rev-parse, the walk or
\* the compiler inside the loop
MainBuildError ==
    /\ m_ret = "running"
    /\ \/ m_pc = "build"
       \/ m_pc = "loop" /\ m_todo # {}
    /\ MainExit("err")
    /\ UNCHANGED disk

\* lines 342-349: a project whose latest log failed is left out by `check`
MainSkipKnownFailure(o, prj) ==
    /\ o # None
    /\ prj.build_logs # <<>>
    /\ ~Last(prj.build_logs).result
    /\ ~Unwrap(o).all

\* lines 371-378: `update` leaves out a project tested at this revision
MainSkipUnchanged(o, prj, r, v) ==
    /\ o = None
    /\ prj.build_logs # <<>>
    /\ Last(prj.build_logs).rev = r
    /\ Last(prj.build_logs).veryl_version = v

\* lines 341-411: one iteration of the loop over db.projects, in the order of
\* the HashMap; found says whether the walk met a Veryl.toml, built is the
\* exit status of `veryl build`
MainProject(id, r, found, built) ==
    /\ m_ret = "running"
    /\ m_pc = "loop"
    /\ id \in m_todo
    /\ m_todo' = m_todo \ {id}
    /\ LET prj    == m_db.projects[id]
           result == found /\ built
       IN  IF MainSkipKnownFailure(m_opt, prj) \/ MainSkipUnchanged(m_opt, prj, r, m_version)
           THEN UNCHANGED m_logs
           ELSE m_logs' = Append(m_logs, [id |-> id, log |-> BuildLog(r, m_version, result)])
    /\ UNCHANGED <<disk, loaded, m_pc, m_ret, m_opt, m_db, m_rels, m_version, m_runs>>

\* lines 413-424: the logs go into the projects; `update` saves
MainBuildEnd ==
    /\ m_ret = "running"
    /\ m_pc = "loop"
    /\ m_todo = {}
    /\ m_db' = [m_db EXCEPT !.projects = CommitLogs(@, m_logs)]
    /\ disk' = IF m_opt = None THEN Save(m_db') ELSE disk
    /\ m_ret' = "ok"
    /\ m_pc' = "end"
    /\ UNCHANGED <<loaded, m_opt, m_rels, m_version, m_todo, m_logs, m_runs>>

\* line 421: db.save(JSON_PATH)? fails
MainBuildSaveError(file) ==
    /\ m_ret = "running"
    /\ m_pc = "loop"
    /\ m_todo = {}
    /\ m_opt = None
    /\ m_db' = [m_db EXCEPT !.projects = CommitLogs(@, m_logs)]
    /\ disk' = file
    /\ m_ret' = "err"
    /\ UNCHANGED <<loaded, m_pc, m_opt, m_rels, m_version, m_todo, m_logs, m_runs>>

vars == <<rel_vars, vb_vars, build_vars, upd_vars, main_vars>>

Init == RelInit /\ VbIdle /\ RunIdle /\ DbEmpty /\ UpdIdle /\ MainIdle

Next ==
    \/ \E rels \in SeqsUpTo(GithubRelease, MaxReleases), k \in {"Veryl", "Verylup"} :
            PushReleaseBegin(rels, k) /\ UNCHANGED <<main_vars, vb_vars, build_vars, upd_vars>>
    \/ PushReleasePanic /\ UNCHANGED <<main_vars, vb_vars, build_vars, upd_vars>>
    \/ PushReleaseStep /\ UNCHANGED <<main_vars, vb_vars, build_vars, upd_vars>>
    \/ PushReleaseEnd /\ UNCHANGED <<main_vars, vb_vars, build_vars, upd_vars>>

Spec == Init /\ [][Next]_vars

InitMigrate == RelInit /\ VbInit /\ RunIdle /\ DbEmpty /\ UpdIdle /\ MainIdle

NextMigrate ==
    \* one answer more than the longest call asks for
    \/ \E resp \in Responses(MaxCommands(vb_info.version) + 1) :
            VerylBuildCall(resp) /\ UNCHANGED <<main_vars, rel_vars, build_vars, upd_vars>>
    \/ \E info \in VerylBuildInfo :
            VerylBuildAgain(info) /\ UNCHANGED <<main_vars, rel_vars, build_vars, upd_vars>>

SpecMigrate == InitMigrate /\ [][NextMigrate]_vars

\* runs of Db::build one after the other, on projects of one build root each
\* and without version pins
PlainOpts ==
    {None} \cup { Some([all |-> a, veryl_version |-> None, ref_version |-> None]) :
                      a \in BOOLEAN }

InitBuild == RelInit /\ VbIdle /\ RunIdle /\ DbInit /\ UpdIdle /\ MainIdle

NextBuild ==
    \/ \E url \in Urls : InsertProject(url) /\ UNCHANGED <<main_vars, rel_vars, vb_vars, upd_vars>>
    \/ \E url \in Urls, u \in Revs \cup {Gone} :
            UpstreamChange(url, u) /\ UNCHANGED <<main_vars, rel_vars, vb_vars, upd_vars>>
    \/ \E o \in PlainOpts, v \in CompilerVersions :
            runs < MaxRuns /\ BuildStart(o, v) /\ UNCHANGED <<main_vars, rel_vars, vb_vars, upd_vars>>
    \/ runs < MaxRuns /\ BuildStartError /\ UNCHANGED <<main_vars, rel_vars, vb_vars, upd_vars>>
    \/ ProjectError /\ UNCHANGED <<main_vars, rel_vars, vb_vars, upd_vars>>
    \/ ProjectSkip /\ UNCHANGED <<main_vars, rel_vars, vb_vars, upd_vars>>
    \/ ProjectCheckoutFailed /\ UNCHANGED <<main_vars, rel_vars, vb_vars, upd_vars>>
    \/ ProjectUnchanged /\ UNCHANGED <<main_vars, rel_vars, vb_vars, upd_vars>>
    \/ ProjectDiscover(<< <<>> >>) /\ UNCHANGED <<main_vars, rel_vars, vb_vars, upd_vars>>
    \/ \E resp \in Responses(MaxCommands(version)) :
            RootCheck(resp) /\ UNCHANGED <<main_vars, rel_vars, vb_vars, upd_vars>>
    \/ ProjectFinish /\ UNCHANGED <<main_vars, rel_vars, vb_vars, upd_vars>>
    \/ ProjectNext /\ UNCHANGED <<main_vars, rel_vars, vb_vars, upd_vars>>
    \/ BuildCommit /\ UNCHANGED <<main_vars, rel_vars, vb_vars, upd_vars>>

SpecBuild == InitBuild /\ [][NextBuild]_vars

\* calls of Db::update one after the other
InitUpdate == RelInit /\ VbIdle /\ RunIdle /\ DbEmpty /\ UpdIdle /\ MainIdle

NextUpdate ==
    \/ updates < MaxUpdates /\ UpdateStart
    \/ SearchNoToken
    \/ SearchBuildError
    \/ \E answer \in {None} \cup { Some(p) : p \in SearchPages(s_query) } :
            SearchAttempt(answer)
    \/ SearchRetryOver
    \/ UpdateSources
    \/ UpdateItems
    \/ ReleaseRequestFails
    \/ \E rels \in ReleaseLists : ReleaseRequestVeryl(rels)
    \/ \E rels \in ReleaseLists : ReleaseRequestVerylup(rels)
    \/ UpdatePushStep
    \/ UpdatePushPanic
    \/ UpdatePushedVeryl
    \/ UpdatePushVerylup
    \/ UpdateEnd

SpecUpdate == InitUpdate /\ [][NextUpdate]_vars

\* the first run of Db::build over a registry that update has just filled:
\* checkouts with no, one or two manifests, with and without version pins
RootLists == { <<>>, << <<>> >>, << <<>>, <<"sub">> >> }

FreshRegistries ==
    { [id \in {0, 1} |-> [url |-> f[id], build_logs |-> <<>>]] :
          f \in { g \in [{0, 1} -> Urls] : g[0] # g[1] } }

InitRoots ==
    /\ RelInit
    /\ VbIdle
    /\ RunIdle
    /\ db_projects \in FreshRegistries
    /\ upstream \in [Urls -> Revs \cup {Gone}]
    /\ ins_ret = None
    /\ UpdIdle
    /\ MainIdle

\* the options of a first run: `all` is read only where a project has logs
FirstRunOpts == { o \in Opts : o # None => ~Unwrap(o).all }

NextRoots ==
    \/ \E o \in FirstRunOpts, v \in CompilerVersions :
            runs = 0 /\ BuildStart(o, v) /\ UNCHANGED <<main_vars, rel_vars, vb_vars, upd_vars>>
    \/ ProjectError /\ UNCHANGED <<main_vars, rel_vars, vb_vars, upd_vars>>
    \/ ProjectCheckoutFailed /\ UNCHANGED <<main_vars, rel_vars, vb_vars, upd_vars>>
    \/ \E roots \in RootLists : ProjectDiscover(roots) /\ UNCHANGED <<main_vars, rel_vars, vb_vars, upd_vars>>
    \/ \E resp \in Responses(MaxCommands(version)) :
            RootCheck(resp) /\ UNCHANGED <<main_vars, rel_vars, vb_vars, upd_vars>>
    \/ \E resp \in Responses(MaxCommands(version)) :
            RootReference(resp) /\ UNCHANGED <<main_vars, rel_vars, vb_vars, upd_vars>>
    \/ \E resp \in Responses(MaxCommands(version)) :
            RootCompare(resp) /\ UNCHANGED <<main_vars, rel_vars, vb_vars, upd_vars>>
    \/ ProjectFinish /\ UNCHANGED <<main_vars, rel_vars, vb_vars, upd_vars>>
    \/ ProjectNext /\ UNCHANGED <<main_vars, rel_vars, vb_vars, upd_vars>>
    \/ BuildCommit /\ UNCHANGED <<main_vars, rel_vars, vb_vars, upd_vars>>

SpecRoots == InitRoots /\ [][NextRoots]_vars

\* command lines of src/main.rs run one after the other on one db/db.json
InitMain == RelInit /\ VbIdle /\ RunIdle /\ DbEmpty /\ UpdIdle /\ MainIdle

NextMain ==
    \/ \E o \in MainOpts, io_ok \in BOOLEAN :
            MainStart(o, io_ok) /\ UNCHANGED <<rel_vars, vb_vars, build_vars, upd_vars>>
    \/ MainUpdatePanic /\ UNCHANGED <<rel_vars, vb_vars, build_vars, upd_vars>>
    \/ MainUpdateError /\ UNCHANGED <<rel_vars, vb_vars, build_vars, upd_vars>>
    \/ \E total_count \in MainCounts, items \in MainItemLists :
            MainDiscover(total_count, items)
                /\ UNCHANGED <<rel_vars, vb_vars, build_vars, upd_vars>>
    \/ \E rels \in MainReleaseLists :
            MainReleases(rels) /\ UNCHANGED <<rel_vars, vb_vars, build_vars, upd_vars>>
    \/ MainPushStep /\ UNCHANGED <<rel_vars, vb_vars, build_vars, upd_vars>>
    \/ MainPushPanic /\ UNCHANGED <<rel_vars, vb_vars, build_vars, upd_vars>>
    \/ MainUpdateSave /\ UNCHANGED <<rel_vars, vb_vars, build_vars, upd_vars>>
    \/ \E file \in SaveFailures(disk) :
            MainUpdateSaveError(file) /\ UNCHANGED <<rel_vars, vb_vars, build_vars, upd_vars>>
    \/ MainPlot /\ UNCHANGED <<rel_vars, vb_vars, build_vars, upd_vars>>
    \/ MainPlotError /\ UNCHANGED <<rel_vars, vb_vars, build_vars, upd_vars>>
    \/ \E v \in MainVersions :
            MainBuildStart(v) /\ UNCHANGED <<rel_vars, vb_vars, build_vars, upd_vars>>
    \/ MainBuildError /\ UNCHANGED <<rel_vars, vb_vars, build_vars, upd_vars>>
    \/ \E id \in m_todo, found \in BOOLEAN, built \in BOOLEAN :
            MainProject(id, "r1", found, built)
                /\ UNCHANGED <<rel_vars, vb_vars, build_vars, upd_vars>>
    \/ MainBuildEnd /\ UNCHANGED <<rel_vars, vb_vars, build_vars, upd_vars>>
    \/ \E file \in SaveFailures(disk) :
            MainBuildSaveError(file) /\ UNCHANGED <<rel_vars, vb_vars, build_vars, upd_vars>>

SpecMain == InitMain /\ [][NextMain]_vars

(***************************************************************************)
(* Claims about the download histories (specification Spec).               *)
(***************************************************************************)
DownloadsOf(k, veryl, verylup) == IF k = "Veryl" THEN veryl ELSE verylup

AllHistories ==
    { veryl_downloads[v] : v \in DOMAIN veryl_downloads }
        \cup { verylup_downloads[v] : v \in DOMAIN verylup_downloads }

\* C6: a release that push_release processes appends its sample to the
\* history of (track, version) exactly when that history is absent or its last
\* sample's count mapping differs from the new one; otherwise the history is
\* left as it is.
C6_MergeRule ==
    [][ (rel_pc = "push" /\ releases # <<>> /\ rel_pc' = "push") =>
            LET release == Head(releases)
                ver     == Unwrap(ReleaseVersion(release))
                counts  == CountsOf(release.assets)
                before  == HistoryOf(DownloadsOf(kind, veryl_downloads,
                                                 verylup_downloads), ver)
                after   == HistoryOf(DownloadsOf(kind, veryl_downloads',
                                                 verylup_downloads'), ver)
            IN  IF before = <<>> \/ Last(before).counts # counts
                THEN after = Append(before, [counts |-> counts])
                ELSE after = before ]_vars

\* the same count mapping was recorded twice for a key and one sample is kept
C6_Witness ==
    /\ last_merge = "same"
    /\ \E h \in AllHistories : Len(h) = 1

NoConsecutiveSame(h) ==
    \A i \in 1..(Len(h) - 1) : h[i].counts # h[i + 1].counts

IsPrefix(s, t) == Len(s) <= Len(t) /\ SubSeq(t, 1, Len(s)) = s

GrowsByAppending(before, after) ==
    \A v \in DOMAIN before : v \in DOMAIN after /\ IsPrefix(before[v], after[v])

\* C7: every download history is non-empty and holds no two consecutive
\* samples with the same count mapping, and a step only ever extends a
\* history at its end.
C7_Histories ==
    /\ [](\A h \in AllHistories : h # <<>> /\ NoConsecutiveSame(h))
    /\ [][ /\ GrowsByAppending(veryl_downloads, veryl_downloads')
           /\ GrowsByAppending(verylup_downloads, verylup_downloads') ]_vars

\* a history that grew past its first sample, with samples on both tracks
C7_Witness ==
    /\ \E h \in AllHistories : Len(h) >= 2
    /\ veryl_downloads # <<>>
    /\ verylup_downloads # <<>>

(***************************************************************************)
(* Claims about veryl_build and migrate (specification SpecMigrate).       *)
(***************************************************************************)
StepsOf(calls, step) == SelectSeq(calls, LAMBDA c : c.step = step)

Probes   == StepsOf(vb_ret.calls, "probe")
Replays  == StepsOf(vb_ret.calls, "replay")
Rebuilds == StepsOf(vb_ret.calls, "rebuild")

\* veryl_build returned Ok(..) after its first build failed
FirstBuildFailed ==
    /\ vb_pc = "done"
    /\ ~vb_ret.err
    /\ vb_ret.calls[1].out = "fail"

\* the backward probe stopped at a minor version whose migrate succeeded
ProbeFound == Probes # <<>> /\ Last(Probes).out = "ok"

ProbeStop == Unwrap(Last(Probes).args.pin)[2]

\* C8: when the backward probe of a 0.M compiler stopped at minor K, the
\* commands of the call are the first build, the probes, then migrate pinned
\* to 0.K, 0.(K+1), ..., 0.M, once each and in that order, whatever the exit
\* status of each replay step, and then the rebuild; only a compiler that
\* cannot be launched cuts the replay short.
C8_ForwardReplay ==
    (vb_pc = "done" /\ vb_info.version.major = 0 /\ ProbeFound) =>
        LET K == ProbeStop
            M == vb_info.version.minor
        IN  /\ Len(Replays) <= M - K + 1
            /\ \A i \in 1..Len(Replays) : Replays[i].args = MigrateArgs(K + i - 1)
            /\ (\A i \in 1..Len(Replays) : Replays[i].out # "err")
                   => Len(Replays) = M - K + 1
            /\ ~vb_ret.err =>
                   vb_ret.calls = <<vb_ret.calls[1]>> \o Probes \o Replays \o Rebuilds

\* a replay of three steps whose first step fails, in a call that returned
C8_Witness ==
    /\ vb_pc = "done"
    /\ ~vb_ret.err
    /\ ProbeFound
    /\ Len(Replays) >= 3
    /\ Replays[1].out = "fail"
    /\ Replays[2].out = "ok"

\* C9 as stated: after a failed first build the build is re-attempted once,
\* without a version argument, and its outcome is the result.
C9_RebuildUnpinned ==
    FirstBuildFailed =>
        /\ Len(Rebuilds) = 1
        /\ Rebuilds[1].args.pin = None
        /\ vb_ret.result = (Rebuilds[1].out = "ok")

\* C9, amended: after a failed first build, a call that returns has run the
\* build once more, as its last command and with the arguments of the first
\* build (so without a version argument exactly when the call was given
\* none), and the outcome of that rebuild is the result.
C9_Rebuild ==
    FirstBuildFailed =>
        /\ Len(Rebuilds) = 1
        /\ Last(vb_ret.calls) = Rebuilds[1]
        /\ Rebuilds[1].args = vb_ret.calls[1].args
        /\ (vb_info.version_arg = None <=> Rebuilds[1].args.pin = None)
        /\ vb_ret.result = (Rebuilds[1].out = "ok")

\* a rebuild that passes under a version argument, after a replay
C9_Witness ==
    /\ FirstBuildFailed
    /\ vb_info.version_arg # None
    /\ Replays # <<>>
    /\ vb_ret.result

\* no migration was performed: a major version of 1 or more, or no probe hit
NoMigration ==
    /\ FirstBuildFailed
    /\ (vb_info.version.major >= 1 \/ ~ProbeFound)

\* C10 as stated: without a migration the first failure is the result.
C10_FailureFinal == NoMigration => vb_ret.result = FALSE

\* C10, amended: without a migration the call runs no replay (and for a major
\* version of 1 or more no migrate command at all), still runs the build once
\* more, and returns the outcome of that rebuild: false exactly when the
\* rebuild fails too.
C10_NoMigration ==
    NoMigration =>
        /\ Replays = <<>>
        /\ (vb_info.version.major >= 1 => Probes = <<>>)
        /\ Len(Rebuilds) = 1
        /\ vb_ret.result = (Rebuilds[1].out = "ok")

\* every probe of a 0.2 compiler failed and the rebuild passed all the same
C10_Witness ==
    /\ NoMigration
    /\ vb_info.version.major = 0
    /\ Len(Probes) >= 2
    /\ vb_ret.result

\* C11: under a compiler whose major version is 1 or more, a call of
\* veryl_build runs no migrate command, whether its builds pass or fail.
C11_MajorZeroOnly ==
    (vb_pc = "done" /\ vb_info.version.major >= 1)
        => \A i \in 1..Len(vb_ret.calls) : vb_ret.calls[i].args.cmd # "migrate"

\* a 1.x compiler with a minor version to probe from: the first build failed
\* and the call went straight to the rebuild
C11_Witness ==
    /\ FirstBuildFailed
    /\ vb_info.version.major >= 1
    /\ vb_info.version.minor > 0
    /\ Len(vb_ret.calls) = 2
    /\ vb_ret.calls[2].step = "rebuild"

\* C23: under a 0.M compiler the probes are migrate pinned to 0.M, 0.(M-1),
\* ... in that order, none below 0.1 and at most M of them; every probe but
\* the last has failed, so none follows one that succeeds; they come right
\* after the first build; a call whose probes all fail runs no replay, and
\* with M = 0 there is no migrate command at all.
C23_BackwardProbe ==
    (vb_pc = "done" /\ vb_info.version.major = 0) =>
        LET M == vb_info.version.minor
        IN  /\ Len(Probes) <= M
            /\ \A i \in 1..Len(Probes) :
                /\ Probes[i].args = MigrateArgs(M - i + 1)
                /\ M - i + 1 >= 1
                /\ vb_ret.calls[i + 1] = Probes[i]
                /\ i < Len(Probes) => Probes[i].out = "fail"
            /\ ~ProbeFound => Replays = <<>>
            /\ M = 0 => (Probes = <<>> /\ Replays = <<>>)
            /\ (FirstBuildFailed /\ ~ProbeFound) => Len(Probes) = M

\* a 0.3 compiler whose probe failed at 0.3 and stopped at 0.2
C23_Witness ==
    /\ FirstBuildFailed
    /\ vb_info.version.major = 0
    /\ vb_info.version.minor = MaxMinor
    /\ Len(Probes) = 2
    /\ ProbeFound
    /\ ProbeStop = MaxMinor - 1

\* C27: a call of veryl_build under a 0.M compiler ends after at most two
\* build commands and at most 2*M migrate commands, whatever the commands
\* answer; a rebuild is the last command of its call, so no migrate follows it.
C27_BoundedInvocations ==
    (vb_pc = "done" /\ vb_info.version.major = 0) =>
        LET M     == vb_info.version.minor
            calls == vb_ret.calls
        IN  /\ Len(StepsOf(calls, "first")) + Len(Rebuilds) <= 2
            /\ Len(StepsOf(calls, "first")) = 1
            /\ Len(Probes) + Len(Replays) <= 2 * M
            /\ Len(calls) <= 2 + 2 * M
            /\ \A i \in 1..Len(calls) : calls[i].step = "rebuild" => i = Len(calls)

\* the longest call: M probes that fail down to 0.1, M replays, the rebuild
\* fails as well
C27_Witness ==
    /\ vb_pc = "done"
    /\ vb_info.version.major = 0
    /\ vb_info.version.minor = MaxMinor
    /\ Len(Probes) = MaxMinor
    /\ Len(Replays) = MaxMinor
    /\ Len(Rebuilds) = 1
    /\ Last(vb_ret.calls).out = "fail"
    /\ Len(vb_ret.calls) = 2 + 2 * MaxMinor

(***************************************************************************)
(* Claims about the registry, checked under SpecBuild.                     *)
(***************************************************************************)
\* a call of insert_project has just returned
InsertStep ==
    /\ b_pc = "idle"
    /\ b_pc' = "idle"
    /\ runs' = runs
    /\ upstream' = upstream
    /\ ins_ret' # None

Registered(registry, url) == \E k \in DOMAIN registry : registry[k].url = url

UniqueUrls ==
    \A i \in DOMAIN db_projects : \A j \in DOMAIN db_projects :
        db_projects[i].url = db_projects[j].url => i = j

\* C4: insert_project with a URL that is already registered returns the id
\* that URL has and leaves the registry as it is, so no two entries of the
\* registry ever have the same URL.
C4_FindOrCreate ==
    /\ [](UniqueUrls)
    /\ [][(InsertStep /\ Registered(db_projects, Unwrap(ins_ret').url))
            => /\ db_projects' = db_projects
               /\ Unwrap(ins_ret').id \in DOMAIN db_projects
               /\ db_projects[Unwrap(ins_ret').id].url = Unwrap(ins_ret').url]_vars

\* the last call found its URL: it returned an id below the newest one
C4_Witness ==
    /\ ins_ret # None
    /\ Cardinality(DOMAIN db_projects) = 2
    /\ Unwrap(ins_ret).id = 0
    /\ db_projects[0].url = Unwrap(ins_ret).url

DenseIds == DOMAIN db_projects = 0 .. (Cardinality(DOMAIN db_projects) - 1)

\* C5: the keys of the registry are exactly 0 .. n-1 for a registry of n
\* entries, a project created by insert_project gets the size of the
\* registry before the call as its id, and an id stays bound to its URL.
C5_DenseIds ==
    /\ [](DenseIds)
    /\ [][/\ \A id \in DOMAIN db_projects :
                /\ id \in DOMAIN db_projects'
                /\ db_projects'[id].url = db_projects[id].url
          /\ (InsertStep /\ ~Registered(db_projects, Unwrap(ins_ret').url))
                => /\ Unwrap(ins_ret').id = Cardinality(DOMAIN db_projects)
                   /\ DOMAIN db_projects' =
                        DOMAIN db_projects \cup {Cardinality(DOMAIN db_projects)}
                   /\ db_projects'[Unwrap(ins_ret').id].url = Unwrap(ins_ret').url]_vars

\* the second project has just been created, with id 1
C5_Witness ==
    /\ ins_ret # None
    /\ Cardinality(DOMAIN db_projects) = 2
    /\ Unwrap(ins_ret).id = 1
    /\ db_projects[1].url = Unwrap(ins_ret).url
    /\ db_projects[0].url # db_projects[1].url

(***************************************************************************)
(* Claims about the runs of Db::build, checked under SpecBuild.            *)
(***************************************************************************)
\* the loop body is at work on projects[idx]
InLoopBody == b_pc # "idle" /\ idx <= Len(projects)

\* the head revision resolves, and it and the compiler version are those of
\* the latest stored log
LatestMatches(prj, r, v) ==
    /\ prj.build_logs # <<>>
    /\ r # Gone
    /\ Last(prj.build_logs).rev = r
    /\ Last(prj.build_logs).veryl_version = v

CurrentMatches == LatestMatches(Current.prj, upstream[Current.prj.url], version)

PendingLogs(id) == { i \in 1..Len(build_logs) : build_logs[i].id = id }

\* the run commits its logs
CommitStep == b_pc = "loop" /\ idx > Len(projects) /\ b_pc' = "idle"

\* C1, as stated: the second of two update runs in a row, with no change in
\* between, appends no log to any project, a project whose checkout fails
\* both times included.
C1_SecondRunAppendsNothing ==
    [][(CommitStep /\ repeat) => db_projects' = db_projects]_vars

\* C1, amended: the second of two update runs in a row, with no change in
\* between, appends no log to a project whose head revision resolves, and
\* exactly one log {rev: "", version, result: false} to each project whose
\* checkout fails.
C1_SecondRun ==
    [][(CommitStep /\ repeat)
        => /\ DOMAIN db_projects' = DOMAIN db_projects
           /\ \A id \in DOMAIN db_projects :
                db_projects'[id] =
                    IF upstream[db_projects[id].url] = Gone
                    THEN [db_projects[id] EXCEPT
                            !.build_logs = Append(@, BuildLog("", version, FALSE))]
                    ELSE db_projects[id]]_vars

\* a second run has committed: one project was left as it was, with a failing
\* log for a revision that resolves, the other failed to check out twice
C1_Witness ==
    /\ b_pc = "idle"
    /\ b_result = "ok"
    /\ repeat
    /\ prev_run # None
    /\ \E id \in DOMAIN db_projects :
        /\ upstream[db_projects[id].url] # Gone
        /\ Len(db_projects[id].build_logs) = 1
        /\ ~db_projects[id].build_logs[1].result
    /\ \E id \in DOMAIN db_projects :
        /\ upstream[db_projects[id].url] = Gone
        /\ Len(db_projects[id].build_logs) = 2

\* C2: in an update run, a project whose head revision and compiler version
\* are those of its latest stored log gets no build and no migrate
\* invocation, and the run leaves the length of its history as it was.
C2_FullRefreshSkip ==
    /\ []((InLoopBody /\ opt = None /\ CurrentMatches)
            => /\ b_pc \in {"loop", "next"}
               /\ invoked = {}
               /\ PendingLogs(Current.id) = {}
               /\ b_pc = "next" => outcome = "unchanged")
    /\ [][(CommitStep /\ opt = None)
            => \A i \in 1..Len(projects) :
                LatestMatches(projects[i].prj, upstream[projects[i].prj.url], version)
                    => Len(db_projects'[projects[i].id].build_logs)
                        = Len(projects[i].prj.build_logs)]_vars

\* an update run has passed over a project with a matching log
C2_Witness ==
    /\ b_pc = "next"
    /\ opt = None
    /\ CurrentMatches
    /\ outcome = "unchanged"
    /\ invoked = {}

\* C3, as stated: in no run, update or check, is a build invoked for a
\* project whose head revision and compiler version are those of its latest
\* stored log.
C3_NeverRetested ==
    (InLoopBody /\ CurrentMatches) => "build" \notin invoked

\* C3, amended: an update run invokes no build for a project whose head
\* revision and compiler version are those of its latest stored log; a check
\* run does not compare them, and tests such a project again unless the skip
\* decision passes over it.
C3_RetestedInCheckOnly ==
    (InLoopBody /\ CurrentMatches)
        => /\ opt = None => "build" \notin invoked
           /\ (opt # None /\ b_pc = "next")
                => IF SkipKnownFailure(opt, Current.prj)
                   THEN outcome = "skipped" /\ invoked = {}
                   ELSE /\ outcome = "tested"
                        /\ veryl_roots # <<>> => "build" \in invoked

\* a check run has tested a project with a matching log again
C3_Witness ==
    /\ b_pc = "next"
    /\ opt # None
    /\ CurrentMatches
    /\ outcome = "tested"
    /\ "build" \in invoked

(***************************************************************************)
(* Claims about the build roots of a project, checked under SpecRoots.     *)
(***************************************************************************)
\* the loop body has tested projects[idx] and pushed its log
Tested == b_pc = "next" /\ outcome = "tested"

\* the path of a root below the checkout, "." for the checkout itself
RelativePath(root, dir) ==
    LET below == SubSeq(root, Len(dir) + 1, Len(root))
    IN  IF below = <<>> THEN <<".">> ELSE below

FailingRoots == { i \in 1..Len(veryl_roots) : ~root_results[i] }

\* C12: the log pushed for a tested project has result true exactly when the
\* result of every build root found is true, and the failing paths reported
\* are exactly the paths below the checkout ("." for the checkout itself)
\* of the roots whose result is false, "Failure" being printed exactly when
\* there is one.
C12_MultiRootAnd ==
    Tested =>
        /\ Len(root_results) = Len(veryl_roots)
        /\ Last(build_logs).id = Current.id
        /\ Last(build_logs).log.result = (FailingRoots = {})
        /\ Len(Unwrap(printed).fails) = Cardinality(FailingRoots)
        /\ { Unwrap(printed).fails[i] : i \in 1..Len(Unwrap(printed).fails) }
            = { RelativePath(veryl_roots[i], PrjDir(Current.prj.url)) : i \in FailingRoots }
        /\ (Unwrap(printed).status = "Failure") = (FailingRoots # {})

\* two roots, the first failing and the second passing: recorded false, with
\* "." as the one failing path
C12_Witness ==
    /\ Tested
    /\ root_results = <<FALSE, TRUE>>
    /\ ~Last(build_logs).log.result
    /\ Unwrap(printed).fails = << <<".">> >>

\* C13, as stated: a project whose checkout holds no manifest, so that no
\* build root is found, is recorded with result false.
C13_MissingManifestFails ==
    (Tested /\ veryl_roots = <<>>) => ~Last(build_logs).log.result

(***************************************************************************)
(* Claims about the loop over projects, checked under SpecBuild.           *)
(***************************************************************************)
\* the checkout of projects[idx] has failed and the loop body has ended
CheckoutFailed == b_pc = "next" /\ outcome = "checkout_failed"

\* C14: a project that is not skipped and whose head revision cannot be
\* resolved gets exactly one log {rev: "", version of the run, false} and no
\* compiler invocation, and the loop then goes on with the next project in
\* the order, the run still running.
C14_CheckoutFailure ==
    /\ [](CheckoutFailed
            => /\ upstream[Current.prj.url] = Gone
               /\ invoked = {}
               /\ PendingLogs(Current.id) = {Len(build_logs)}
               /\ Last(build_logs).log =
                    [rev |-> "", veryl_version |-> version, result |-> FALSE])
    /\ []((InLoopBody /\ upstream[Current.prj.url] = Gone
              /\ ~SkipKnownFailure(opt, Current.prj))
            => /\ b_pc \in {"loop", "next"}
               /\ invoked = {}
               /\ b_pc = "next" => outcome = "checkout_failed")
    /\ [][CheckoutFailed
            => /\ b_pc' = "loop"
               /\ idx' = idx + 1
               /\ projects' = projects
               /\ b_result' = "running"
               /\ build_logs' = build_logs]_vars

\* the second project has been tested after the checkout of the first failed
C14_Witness ==
    /\ Tested
    /\ idx = 2
    /\ Len(build_logs) = 2
    /\ build_logs[1].log.rev = ""
    /\ ~build_logs[1].log.result
    /\ upstream[projects[1].prj.url] = Gone

\* the registry holds exactly what the run cloned at its start
StoreAsCloned(registry) ==
    /\ DOMAIN registry = { projects[i].id : i \in 1..Len(projects) }
    /\ \A i \in 1..Len(projects) : registry[projects[i].id] = projects[i].prj

\* C15: while a run is under way no step but the commit after the last
\* project changes the registry, and a run that ends with an error leaves
\* the registry exactly as the run found it, the projects it had already
\* tested included.
C15_BatchCommit ==
    /\ [](b_pc # "idle" => StoreAsCloned(db_projects))
    /\ [][b_pc # "idle"
            => /\ ~CommitStep => db_projects' = db_projects
               /\ b_result' = "err" => StoreAsCloned(db_projects')]_vars

\* a run with the log of its first project pending, at a point where the
\* second project can still abort it
C15_Witness ==
    /\ b_pc = "roots"
    /\ idx = 2
    /\ Len(build_logs) = 1
    /\ build_logs[1].id = projects[1].id
    /\ build_logs[1].log.rev # ""
    /\ StoreAsCloned(db_projects)

\* C16: a run that completes appends exactly one log to each project it
\* tested or failed to check out and none to a project passed over by the
\* skip decision or by the idempotence check, so that no history grows by
\* more than one entry in a run.
C16_OneLogPerProject ==
    /\ [](b_pc = "next"
            => /\ outcome \in {"tested", "checkout_failed", "skipped", "unchanged"}
               /\ Cardinality(PendingLogs(Current.id)) =
                    IF outcome \in {"tested", "checkout_failed"} THEN 1 ELSE 0)
    /\ [](b_pc # "idle"
            => \A i \in 1..Len(projects) :
                /\ Cardinality(PendingLogs(projects[i].id)) <= 1
                /\ (i > idx \/ (i = idx /\ b_pc # "next"))
                        => PendingLogs(projects[i].id) = {})
    /\ [][CommitStep
            => \A i \in 1..Len(projects) :
                LET id == projects[i].id
                IN  db_projects'[id].build_logs =
                        IF PendingLogs(id) = {}
                        THEN db_projects[id].build_logs
                        ELSE Append(db_projects[id].build_logs,
                                    build_logs[CHOOSE k \in PendingLogs(id) : TRUE].log)]_vars

\* a run about to commit, with a log for one of its two projects and none
\* for the other, which it passed over
C16_Witness ==
    /\ b_pc = "loop"
    /\ idx > Len(projects)
    /\ Len(projects) = 2
    /\ Len(build_logs) = 1

\* a check run without the flag, on a project whose latest log failed
KnownFailure ==
    /\ opt # None
    /\ ~Unwrap(opt).all
    /\ Current.prj.build_logs # <<>>
    /\ ~Last(Current.prj.build_logs).result

\* C17: in a check run without the flag, a project whose latest log failed
\* is passed over before anything is launched for it: no revision is
\* resolved, no compiler command is run, no log is pushed and the run cannot
\* abort at it.  Nothing else is passed over before the checkout: not with
\* the flag set, not in an update run, not a project with no history.
C17_SkipDecision ==
    /\ []((InLoopBody /\ KnownFailure)
            => /\ b_pc \in {"loop", "next"}
               /\ rev = ""
               /\ invoked = {}
               /\ PendingLogs(Current.id) = {}
               /\ b_pc = "next" => outcome = "skipped")
    /\ []((b_pc = "next" /\ outcome = "skipped") => KnownFailure)
    /\ [][(b_pc = "loop" /\ idx <= Len(projects) /\ KnownFailure)
            => /\ b_pc' = "next"
               /\ outcome' = "skipped"
               /\ b_result' = "running"]_vars

\* the second project of a check run has been passed over, after the first
\* was tested
C17_Witness ==
    /\ b_pc = "next"
    /\ outcome = "skipped"
    /\ idx = 2
    /\ Len(build_logs) = 1
    /\ KnownFailure

\* C18: whatever insert_project and Db::build do, the history a project had
\* before a step is a prefix of the one it has after it: no log is edited,
\* moved or removed.  insert_project with a URL that is registered leaves
\* the history of its project as it is.
C18_AppendOnly ==
    /\ [][\A id \in DOMAIN db_projects :
            /\ id \in DOMAIN db_projects'
            /\ IsPrefix(db_projects[id].build_logs, db_projects'[id].build_logs)]_vars
    /\ [][(InsertStep /\ Registered(db_projects, Unwrap(ins_ret').url))
            => db_projects'[Unwrap(ins_ret').id].build_logs
                = db_projects[Unwrap(ins_ret').id].build_logs]_vars

\* insert_project has been called with the URL of a project that two runs
\* have logged, and the two logs are there
C18_Witness ==
    /\ ins_ret # None
    /\ b_result = "ok"
    /\ db_projects[Unwrap(ins_ret).id].url = Unwrap(ins_ret).url
    /\ Len(db_projects[Unwrap(ins_ret).id].build_logs) = 2

(***************************************************************************)
(* Claims about Db::search and Db::update, checked under SpecUpdate.       *)
(***************************************************************************)
Store == <<discovered, db_projects, veryl_downloads, verylup_downloads>>

AllFailed(answers) == \A i \in 1..Len(answers) : answers[i] = None

\* update has not yet got past its two searches
InSearches == u_pc = "search" \/ (u_pc = "found" /\ s_query = QuerySources)

\* C19: a search makes at most `retry` attempts, 5 for the searches of
\* update; it returns the page of its first attempt that succeeds and makes
\* no attempt after it; it returns "retry over" only when `retry` attempts
\* have been made and all have failed; and from the start of update to a
\* search that fails so, no step changes the store.
C19_BoundedRetry ==
    /\ [](Len(s_answers) <= s_retry /\ s_retry \in {0, SearchRetry})
    /\ [](u_pc = "found"
            => /\ Last(s_answers) # None
               /\ page = Last(s_answers)
               /\ AllFailed(SubSeq(s_answers, 1, Len(s_answers) - 1)))
    /\ [](u_ret = "retry over"
            => /\ Len(s_answers) = SearchRetry
               /\ AllFailed(s_answers))
    /\ [][u_pc = "found" => s_answers' = <<>>]_vars
    /\ [][(InSearches \/ (u_pc = "idle" /\ u_pc' = "search")) => Store' = Store]_vars

\* the second search of a second update has given up, over a store that the
\* first update filled
C19_Witness ==
    /\ u_ret = "retry over"
    /\ s_query = QueryProjects
    /\ Len(s_answers) = SearchRetry
    /\ Len(discovered) = 1
    /\ db_projects # <<>>
    /\ veryl_downloads # <<>>

\* C20, as stated: update fails at a remote call only when the attempts of
\* that call are used up, a listing of releases being tried again after a
\* failure as a search is.
C20_EveryCallRetried ==
    /\ u_ret = "retry over" => Len(s_answers) = SearchRetry
    /\ (u_ret = "err" /\ u_pc = "idle" /\ u_sent[u_track] > 0) => u_sent[u_track] > 1

\* the attempts of the call of search in progress that failed
FailedAttempts == SelectSeq(s_answers, LAMBDA a : a = None)

\* C25: within one call of search the k-th failed attempt is followed by a
\* sleep of 30 * 2^(k-1) seconds; there is one sleep per failed attempt and
\* none for the attempt that succeeds; and a call that has made no attempt yet
\* has slept nothing and holds a delay of 30, whatever an earlier call slept.
C25_Backoff ==
    s_retry > 0 =>
        /\ Len(s_slept) = Len(FailedAttempts)
        /\ \A k \in 1..Len(s_slept) :
            /\ s_answers[k] = None
            /\ s_slept[k] = 30 * 2^(k - 1)
        /\ s_duration = 30 * 2^Len(s_slept)
        /\ s_answers = <<>> => (s_slept = <<>> /\ s_duration = 30)

\* the second search of update succeeds at its last attempt, after four sleeps
C25_Witness ==
    /\ u_pc = "found"
    /\ s_query = QueryProjects
    /\ Len(s_answers) = SearchRetry
    /\ s_slept = <<30, 60, 120, 240>>

(***************************************************************************)
(* Claims about the builds of a root, checked under SpecRoots.             *)
(***************************************************************************)
\* the calls of veryl_build made for root i of the current project, in order
BuildsOf(i) == SelectSeq(root_builds, LAMBDA b : b.root = i)

\* C24: with a reference version, three calls of veryl_build are made for a
\* root: under the target version argument, under the reference version, and
\* under the target version argument with --check.  The result recorded for
\* the root is the result of the third, whatever the second returned, and the
\* third is given the target version argument, which is not the reference
\* version where the two differ.
C24_ReferenceOverride ==
    (b_pc \in {"roots", "next"} /\ RefVersion(opt) # None) =>
        \A i \in 1..Len(root_results) :
            LET builds == BuildsOf(i)
            IN  /\ Len(builds) = 3
                /\ builds[1].version_arg = VersionArg(opt) /\ ~builds[1].compare
                /\ builds[2].version_arg = RefVersion(opt) /\ ~builds[2].compare
                /\ builds[3].version_arg = VersionArg(opt) /\ builds[3].compare
                /\ VersionArg(opt) # RefVersion(opt)
                        => builds[3].version_arg # RefVersion(opt)
                /\ root_results[i] = builds[3].result

\* two roots of one project under an unpinned target and a pinned reference:
\* the reference build fails for the first and passes for the second, and both
\* are recorded as passing
C24_Witness ==
    /\ b_pc = "roots"
    /\ VersionArg(opt) = None
    /\ RefVersion(opt) # None
    /\ root_results = <<TRUE, TRUE>>
    /\ ~BuildsOf(1)[2].result
    /\ BuildsOf(2)[2].result

\* a call of veryl_build under the target version argument passed, and ran
\* the compiler's migrate before the build that passed
PassedAfterMigration ==
    \E k \in 1..Len(root_builds) :
        /\ root_builds[k].version_arg = VersionArg(opt)
        /\ root_builds[k].result
        /\ root_builds[k].migrate_ran

\* C26, as stated: a tested project is printed as "Migrate" exactly when its
\* log has result true and a build of one of its roots under the target
\* compiler passed only after a migration was run; "Migrate" and "Success"
\* projects get the same log, with result true.
C26_MigratedSignal ==
    Tested =>
        /\ (Unwrap(printed).status = "Migrate")
                = (Last(build_logs).log.result /\ PassedAfterMigration)
        /\ Unwrap(printed).status \in {"Migrate", "Success"}
                => Last(build_logs).log = BuildLog(rev, version, TRUE)

(***************************************************************************)
(* Claims about the persisted document, checked under SpecMain.            *)
(***************************************************************************)
\* the listing handed to push_release still holds a release whose name has
\* no leading "v" or is no semantic version, or an asset of no known platform
ContractViolation == \E i \in 1..Len(m_rels) : ~MainReleaseOk(m_rels[i])

\* C21: while push_release works on a listing that holds a release breaking
\* the contract, and after it has panicked on it, db/db.json is as it was
\* when the process started, whatever the releases before it in the listing
\* have added to the Db in memory; and at such a release the process can do
\* nothing but panic, leaving the file alone.
C21_ContractViolationAborts ==
    /\ []((m_pc = "push" /\ ContractViolation)
            => /\ m_ret \in {"running", "panic"}
               /\ disk = loaded)
    /\ []((m_pc = "push" /\ m_ret = "panic") => ContractViolation)
    /\ [][(m_pc = "push" /\ m_ret = "running" /\ m_rels # <<>>
              /\ ~MainReleaseOk(Head(m_rels)))
            => (m_ret' = "panic" /\ disk' = disk /\ m_pc' = "push")]_vars

\* the second release of a listing has no leading "v": the sample of the
\* first is in memory, and the file still holds the document of the run before
C21_Witness ==
    /\ m_pc = "push"
    /\ m_ret = "panic"
    /\ Len(m_rels) = 1
    /\ loaded.state = "stored"
    /\ m_db.downloads # loaded.db.downloads
    /\ disk = loaded

\* C22, as stated: when a process of the update command has ended with an
\* error or a panic, db/db.json is exactly as it was when the process started.
C22_AllOrNothing ==
    (m_opt = None /\ m_ret \in {"err", "panic"}) => disk = loaded

====
